---- MODULE Spec2Model ----
(***************************************************************************)
(* A model of the AI calculator agent (CalculatorAgent, second version,    *)
(* src/unnamed/part_002 lines 382-1534) and of the callers that drive it.  *)
(*                                                                         *)
(* Text is modelled by TLA+ strings, read one character at a time with     *)
(* SubSeq; the request texts are ASCII.  Numbers are integers: the request *)
(* texts of the model are chosen so that every value the evaluator         *)
(* produces is an integer.                                                 *)
(***************************************************************************)
EXTENDS Integers, Sequences, FiniteSets, TLC

(***************************************************************************)
(* Strings                                                                 *)
(***************************************************************************)
Char(s, i) == SubSeq(s, i, i)

UpperCase == "ABCDEFGHIJKLMNOPQRSTUVWXYZ"
LowerCase == "abcdefghijklmnopqrstuvwxyz"
Digits == "0123456789"

CharsOf(alphabet) == {Char(alphabet, i) : i \in 1..Len(alphabet)}
UpperChars == CharsOf(UpperCase)
LowerChars == CharsOf(LowerCase)
DigitChars == CharsOf(Digits)

\* the lower-case letter of an upper-case letter, the value of a digit
lowerOf == [c \in UpperChars |->
               Char(LowerCase, CHOOSE i \in 1..Len(UpperCase) : Char(UpperCase, i) = c)]
digitValue == [c \in DigitChars |-> (CHOOSE i \in 1..Len(Digits) : Char(Digits, i) = c) - 1]

IsLetter(c) == c \in LowerChars \/ c \in UpperChars
IsDigit(c) == c \in DigitChars
\* \w of a JavaScript regular expression
IsWordChar(c) == IsLetter(c) \/ IsDigit(c) \/ c = "_"
\* \s of a JavaScript regular expression (the ASCII part)
IsSpace(c) == c \in {" ", "\t", "\n", "\r"}
\* the class [+\-*/^()] of isNaturalLanguage, ASCII part
IsMathSymbol(c) == c \in {"+", "-", "*", "/", "^", "(", ")"}

\* String.prototype.toLowerCase
RECURSIVE toLowerCase(_)
toLowerCase(s) ==
    IF s = "" THEN ""
    ELSE LET c == Char(s, 1)
             l == IF c \in UpperChars THEN lowerOf[c] ELSE c
         IN  l \o toLowerCase(SubSeq(s, 2, Len(s)))

\* String.prototype.trim
RECURSIVE trimLeft(_)
trimLeft(s) ==
    IF s # "" /\ IsSpace(Char(s, 1)) THEN trimLeft(SubSeq(s, 2, Len(s))) ELSE s

RECURSIVE trimRight(_)
trimRight(s) ==
    IF s # "" /\ IsSpace(Char(s, Len(s))) THEN trimRight(SubSeq(s, 1, Len(s) - 1)) ELSE s

trim(s) == trimRight(trimLeft(s))

\* String.prototype.includes
includes(s, sub) ==
    \E i \in 1..(Len(s) - Len(sub) + 1) : SubSeq(s, i, i + Len(sub) - 1) = sub

\* .replace(/[^\w\s+\-*/().,^...]/g, ''), part_002 line 635
IsKeptChar(c) == IsWordChar(c) \/ IsSpace(c) \/ IsMathSymbol(c) \/ c \in {".", ","}

\* the replace without its g flag: only the first special character goes
RECURSIVE stripFirstSpecial(_)
stripFirstSpecial(s) ==
    IF s = "" THEN ""
    ELSE IF IsKeptChar(Char(s, 1)) THEN Char(s, 1) \o stripFirstSpecial(SubSeq(s, 2, Len(s)))
    ELSE SubSeq(s, 2, Len(s))

RECURSIVE stripSpecial(_)
stripSpecial(s) ==
    IF s = "" THEN ""
    ELSE LET c == Char(s, 1)
         IN  (IF IsKeptChar(c) THEN c ELSE "") \o stripSpecial(SubSeq(s, 2, Len(s)))

\* .replace(/\s+/g, ' '), part_002 line 636
RECURSIVE collapseSpace(_)
collapseSpace(s) ==
    IF s = "" THEN ""
    ELSE IF IsSpace(Char(s, 1))
         THEN " " \o collapseSpace(trimLeft(s))
         ELSE Char(s, 1) \o collapseSpace(SubSeq(s, 2, Len(s)))

cleanInput(input) == collapseSpace(stripSpecial(trim(toLowerCase(input))))

(***************************************************************************)
(* Numbers and their text                                                  *)
(***************************************************************************)
\* the value of a run of decimal digits
RECURSIVE parseDigits(_)
parseDigits(s) ==
    IF s = "" THEN 0
    ELSE 10 * parseDigits(SubSeq(s, 1, Len(s) - 1)) + digitValue[Char(s, Len(s))]

RECURSIVE natToString(_)
natToString(n) ==
    IF n < 10 THEN Char(Digits, n + 1)
    ELSE natToString(n \div 10) \o Char(Digits, (n % 10) + 1)

\* String(n) for an integer n
numToString(n) == IF n < 0 THEN "-" \o natToString(-n) ELSE natToString(n)

\* the length of the longest run of digits that starts at position i of s
RECURSIVE digitRun(_, _)
digitRun(s, i) ==
    IF i <= Len(s) /\ IsDigit(Char(s, i)) THEN 1 + digitRun(s, i + 1) ELSE 0

\* text.match(/-?\d+\.?\d*/g).map(Number) || [], for literals whose
\* fractional digits, if any, are zeros
RECURSIVE extractFrom(_, _)
extractFrom(text, i) ==
    IF i > Len(text) THEN << >>
    ELSE LET neg  == Char(text, i) = "-"
             st   == IF neg THEN i + 1 ELSE i
             n    == digitRun(text, st)
             dot  == st + n <= Len(text) /\ Char(text, st + n) = "."
             m    == IF dot THEN digitRun(text, st + n + 1) ELSE 0
             stop == st + n + (IF dot THEN 1 + m ELSE 0)
             v    == parseDigits(SubSeq(text, st, st + n - 1))
         IN  IF n = 0 THEN extractFrom(text, i + 1)
             ELSE << IF neg THEN -v ELSE v >> \o extractFrom(text, stop)

extractNumbers(text) == extractFrom(text, 1)

(***************************************************************************)
(* The ans token                                                           *)
(***************************************************************************)
\* an optional value is a sequence of at most one element; null is << >>
null == << >>

\* does /\bans\b/ match at position i of s
AnsAt(s, i) ==
    /\ i + 2 <= Len(s)
    /\ SubSeq(s, i, i + 2) = "ans"
    /\ (i = 1 \/ ~IsWordChar(Char(s, i - 1)))
    /\ (i + 3 > Len(s) \/ ~IsWordChar(Char(s, i + 3)))

RECURSIVE replaceAnsFrom(_, _, _)
replaceAnsFrom(s, i, r) ==
    IF i > Len(s) THEN ""
    ELSE IF AnsAt(s, i) THEN r \o replaceAnsFrom(s, i + 3, r)
         ELSE Char(s, i) \o replaceAnsFrom(s, i + 1, r)

\* replace without the g flag: the first match alone is replaced
replaceFirstAns(s, r) ==
    IF \E i \in 1..Len(s) : AnsAt(s, i)
    THEN replaceAnsFrom(SubSeq(s, 1, (CHOOSE i \in 1..Len(s) :
                                         AnsAt(s, i) /\ \A j \in 1..(i - 1) : ~AnsAt(s, j)) + 2),
                        1, r)
         \o SubSeq(s, (CHOOSE i \in 1..Len(s) :
                          AnsAt(s, i) /\ \A j \in 1..(i - 1) : ~AnsAt(s, j)) + 3, Len(s))
    ELSE s

\* cleanedInput.replace(/\bans\b/g, String(this.lastAnswer))
replaceAns(s, r) == replaceAnsFrom(s, 1, r)

\* part_002 lines 516-519
substituteAns(cleaned, last) ==
    IF last # null THEN replaceAns(cleaned, numToString(last[1])) ELSE cleaned

(***************************************************************************)
(* Keyword tables of the constructor, in insertion order                   *)
(***************************************************************************)
mathKeywords ==
    << <<"add", "+">>, <<"plus", "+">>, <<"addition", "+">>, <<"sum", "+">>,
       <<"subtract", "-">>, <<"minus", "-">>, <<"subtraction", "-">>, <<"difference", "-">>,
       <<"multiply", "*">>, <<"times", "*">>, <<"multiplication", "*">>, <<"product", "*">>,
       <<"divide", "/">>, <<"division", "/">>, <<"quotient", "/">>,
       <<"power", "^">>, <<"exponent", "^">>, <<"exponentiation", "^">>,
       <<"sqrt", "sqrt">>, <<"square root", "sqrt">>,
       <<"log", "log">>, <<"logarithm", "log">>,
       <<"sin", "sin">>, <<"cos", "cos">>, <<"tan", "tan">>,
       <<"pi", "pi">>, <<"e", "e">> >>

statsKeywords ==
    << <<"mean", "mean">>, <<"average", "mean">>, <<"avg", "mean">>,
       <<"median", "median">>, <<"mode", "mode">>,
       <<"standard deviation", "std">>, <<"variance", "var">>,
       <<"sum", "sum">>, <<"count", "count">> >>

unitKeywords == <<"convert", "conversion", "to", "from", "in", "as">>

graphKeywords ==
    <<"plot", "graph", "chart", "draw", "visualize", "show", "display",
      "function", "equation", "formula", "scatter", "line", "bar", "histogram">>

trigKeywords == <<"sin", "cos", "tan", "sine", "cosine", "tangent">>

\* this.unitConversions as the list of its (category, unit, factor) entries
\* in insertion order; a factor is the fraction n/d.  The entries whose name
\* holds a non-ASCII character (degree sign, superscript two) match no
\* ASCII text and are left out.  A temperature entry maps to a unit name,
\* which is truthy like a factor; its factor is not used.
unitConversions ==
    << <<"length", "mm", 1, 1000>>, <<"length", "millimeter", 1, 1000>>,
       <<"length", "millimeters", 1, 1000>>,
       <<"length", "cm", 1, 100>>, <<"length", "centimeter", 1, 100>>,
       <<"length", "centimeters", 1, 100>>,
       <<"length", "m", 1, 1>>, <<"length", "meter", 1, 1>>, <<"length", "meters", 1, 1>>,
       <<"length", "km", 1000, 1>>, <<"length", "kilometer", 1000, 1>>,
       <<"length", "kilometers", 1000, 1>>,
       <<"length", "in", 254, 10000>>, <<"length", "inch", 254, 10000>>,
       <<"length", "inches", 254, 10000>>,
       <<"length", "ft", 3048, 10000>>, <<"length", "foot", 3048, 10000>>,
       <<"length", "feet", 3048, 10000>>,
       <<"length", "yd", 9144, 10000>>, <<"length", "yard", 9144, 10000>>,
       <<"length", "yards", 9144, 10000>>,
       <<"length", "mi", 1609344, 1000>>, <<"length", "mile", 1609344, 1000>>,
       <<"length", "miles", 1609344, 1000>>,
       <<"weight", "mg", 1, 1000>>, <<"weight", "milligram", 1, 1000>>,
       <<"weight", "milligrams", 1, 1000>>,
       <<"weight", "g", 1, 1>>, <<"weight", "gram", 1, 1>>, <<"weight", "grams", 1, 1>>,
       <<"weight", "kg", 1000, 1>>, <<"weight", "kilogram", 1000, 1>>,
       <<"weight", "kilograms", 1000, 1>>,
       <<"weight", "oz", 283495, 10000>>, <<"weight", "ounce", 283495, 10000>>,
       <<"weight", "ounces", 283495, 10000>>,
       <<"weight", "lb", 453592, 1000>>, <<"weight", "pound", 453592, 1000>>,
       <<"weight", "pounds", 453592, 1000>>,
       <<"weight", "ton", 1000000, 1>>, <<"weight", "metric ton", 1000000, 1>>,
       <<"weight", "tonne", 1000000, 1>>,
       <<"temperature", "c", 1, 1>>, <<"temperature", "celsius", 1, 1>>,
       <<"temperature", "f", 1, 1>>, <<"temperature", "fahrenheit", 1, 1>>,
       <<"temperature", "k", 1, 1>>, <<"temperature", "kelvin", 1, 1>>,
       <<"area", "acre", 404686, 100>>, <<"area", "hectare", 10000, 1>>,
       <<"volume", "ml", 1, 1000>>, <<"volume", "milliliter", 1, 1000>>,
       <<"volume", "milliliters", 1, 1000>>,
       <<"volume", "l", 1, 1>>, <<"volume", "liter", 1, 1>>, <<"volume", "liters", 1, 1>>,
       <<"volume", "gal", 378541, 100000>>, <<"volume", "gallon", 378541, 100000>>,
       <<"volume", "gallons", 378541, 100000>>,
       <<"volume", "qt", 946353, 1000000>>, <<"volume", "quart", 946353, 1000000>>,
       <<"volume", "quarts", 946353, 1000000>>,
       <<"volume", "pt", 473176, 1000000>>, <<"volume", "pint", 473176, 1000000>>,
       <<"volume", "pints", 473176, 1000000>>,
       <<"volume", "cup", 236588, 1000000>>, <<"volume", "cups", 236588, 1000000>>,
       <<"volume", "fl oz", 295735, 10000000>>, <<"volume", "fluid ounce", 295735, 10000000>>,
       <<"volume", "fluid ounces", 295735, 10000000>>,
       <<"time", "ms", 1, 1000>>, <<"time", "millisecond", 1, 1000>>,
       <<"time", "milliseconds", 1, 1000>>,
       <<"time", "s", 1, 1>>, <<"time", "second", 1, 1>>, <<"time", "seconds", 1, 1>>,
       <<"time", "min", 60, 1>>, <<"time", "minute", 60, 1>>, <<"time", "minutes", 60, 1>>,
       <<"time", "h", 3600, 1>>, <<"time", "hour", 3600, 1>>, <<"time", "hours", 3600, 1>>,
       <<"time", "day", 86400, 1>>, <<"time", "days", 86400, 1>>,
       <<"time", "week", 604800, 1>>, <<"time", "weeks", 604800, 1>>,
       <<"time", "month", 2629746, 1>>, <<"time", "months", 2629746, 1>>,
       <<"time", "year", 31556952, 1>>, <<"time", "years", 31556952, 1>> >>

(***************************************************************************)
(* Classification                                                          *)
(***************************************************************************)
containsGraphKeywords(input) ==
    \E i \in 1..Len(graphKeywords) : includes(input, graphKeywords[i])

containsUnitNames(input) ==
    \E lower \in {toLowerCase(input)} :
        \E i \in 1..Len(unitConversions) : includes(lower, unitConversions[i][2])

containsUnitKeywords(input) ==
    \/ \E i \in 1..Len(unitKeywords) : includes(input, unitKeywords[i])
    \/ containsUnitNames(input)

containsStatsKeywords(input) ==
    \E i \in 1..Len(statsKeywords) : includes(input, statsKeywords[i][1])

containsTrigKeywords(input) ==
    \E i \in 1..Len(trigKeywords) : includes(input, trigKeywords[i])

\* isNaturalLanguage without the test of the graphing keywords
isNaturalLanguageSymbolsOnly(input) ==
    /\ \E i \in 1..Len(input) : IsLetter(Char(input, i))
    /\ ~\E i \in 1..Len(input) : IsMathSymbol(Char(input, i))

\* part_002 lines 642-653
isNaturalLanguage(input) ==
    LET hasMathSymbols == \E i \in 1..Len(input) : IsMathSymbol(Char(input, i))
        hasWords == \E i \in 1..Len(input) : IsLetter(Char(input, i))
    IN  IF containsGraphKeywords(input) THEN TRUE
        ELSE hasWords /\ ~hasMathSymbols

(***************************************************************************)
(* The expression evaluator (mathjs), as far as the agent uses it:         *)
(* integer literals, symbols, + - * / ^, unary sign, parentheses, implicit *)
(* multiplication and function calls.  compile checks the syntax only;     *)
(* evaluate also resolves the symbols.  A value that is not an integer, or *)
(* a function the model does not compute, has the status "unmodelled".     *)
(***************************************************************************)
Tok(k, t, n) == [k |-> k, t |-> t, n |-> n]

\* the length of the longest run of word characters that starts at i
RECURSIVE wordRun(_, _)
wordRun(s, i) ==
    IF i <= Len(s) /\ IsWordChar(Char(s, i)) THEN 1 + wordRun(s, i + 1) ELSE 0

RECURSIVE lexFrom(_, _)
lexFrom(s, i) ==
    IF i > Len(s) THEN << >>
    ELSE LET c == Char(s, i)
         IN  IF IsSpace(c) THEN lexFrom(s, i + 1)
             ELSE IF IsDigit(c)
                  THEN LET n == digitRun(s, i)
                           dot == i + n <= Len(s) /\ Char(s, i + n) = "."
                           m == IF dot THEN digitRun(s, i + n + 1) ELSE 0
                           stop == i + n + (IF dot THEN 1 + m ELSE 0)
                           whole == parseDigits(SubSeq(s, i + n + 1, i + n + m)) = 0
                       IN  << Tok(IF whole THEN "num" ELSE "frac", SubSeq(s, i, stop - 1),
                                  parseDigits(SubSeq(s, i, i + n - 1))) >>
                           \o lexFrom(s, stop)
                  ELSE IF IsLetter(c) \/ c = "_"
                       THEN LET n == wordRun(s, i)
                            IN  << Tok("sym", SubSeq(s, i, i + n - 1), 0) >> \o lexFrom(s, i + n)
                       ELSE IF IsMathSymbol(c) \/ c = ","
                            THEN << Tok("op", c, 0) >> \o lexFrom(s, i + 1)
                            ELSE << Tok("bad", c, 0) >> \o lexFrom(s, i + 1)

lex(s) == lexFrom(s, 1)

IsOp(toks, i, c) == i <= Len(toks) /\ toks[i].k = "op" /\ toks[i].t = c

\* a parsed node: ok (the syntax), pos (the next token), st (what evaluate
\* does: "ok", "undef" throws, "unmodelled"), v (the value), lit (a literal)
Node(ok, pos, st, v, lit) == [ok |-> ok, pos |-> pos, st |-> st, v |-> v, lit |-> lit]
SyntaxError == Node(FALSE, 0, "undef", 0, FALSE)

JoinSt(a, b) ==
    IF a = "undef" \/ b = "undef" THEN "undef"
    ELSE IF a \in {"unmodelled", "decimal", "nonfinite"}
            \/ b \in {"unmodelled", "decimal", "nonfinite"}
         THEN "unmodelled"
    ELSE "ok"

RECURSIVE intPow(_, _)
intPow(b, e) == IF e = 0 THEN 1 ELSE b * intPow(b, e - 1)

Abs(n) == IF n < 0 THEN -n ELSE n

\* the quotient of an exact division
Quot(n, d) == IF (n < 0) = (d < 0) THEN Abs(n) \div Abs(d) ELSE -(Abs(n) \div Abs(d))

Binary(op, l, r) ==
    LET st == JoinSt(l.st, r.st)
        exact == \/ op \in {"+", "-", "*"}
                 \/ op = "/" /\ r.v # 0 /\ Abs(l.v) % Abs(r.v) = 0
                 \/ op = "^" /\ r.v >= 0 /\ r.v <= 10
        v == IF st # "ok" \/ ~exact THEN 0
             ELSE CASE op = "+" -> l.v + r.v
                    [] op = "-" -> l.v - r.v
                    [] op = "*" -> l.v * r.v
                    [] op = "/" -> Quot(l.v, r.v)
                    [] op = "^" -> intPow(l.v, r.v)
    IN  Node(TRUE, r.pos,
             IF st = "ok" /\ op = "/" /\ r.v = 0 THEN "nonfinite"
             ELSE IF st = "ok" /\ ~exact THEN "unmodelled" ELSE st,
             v, FALSE)

RECURSIVE sumSeq(_)
sumSeq(q) == IF q = << >> THEN 0 ELSE q[1] + sumSeq(Tail(q))

\* the functions and constants of mathjs that the model does not compute
KnownNames ==
    {"sqrt", "log", "ln", "sin", "cos", "tan", "median", "std", "var", "mode",
     "count", "abs", "exp", "pi", "e", "i", "to", "in"}
    \cup {unitConversions[k][2] : k \in 1..Len(unitConversions)}

\* sin, cos and tan of an angle in radians, in millionths, for the angles
\* of the requests: << function, angle, value >>
radians ==
    << <<"sin", 30, -988032>>, <<"cos", 60, -952413>>, <<"tan", 45, 1619775>> >>

Call(name, args, st, pos) ==
    IF st = "ok" /\ Len(args) = 1
       /\ \E k \in 1..Len(radians) : radians[k][1] = name /\ radians[k][2] = args[1]
    THEN Node(TRUE, pos, "decimal",
              radians[CHOOSE k \in 1..Len(radians) :
                          radians[k][1] = name /\ radians[k][2] = args[1]][3], FALSE)
    ELSE IF name \in {"mean", "sum"}
    THEN IF st # "ok" THEN Node(TRUE, pos, st, 0, FALSE)
         ELSE IF args = << >> THEN Node(TRUE, pos, "undef", 0, FALSE)
         ELSE IF name = "sum" THEN Node(TRUE, pos, "ok", sumSeq(args), FALSE)
         ELSE IF Abs(sumSeq(args)) % Len(args) = 0
              THEN Node(TRUE, pos, "ok", sumSeq(args) \div Len(args), FALSE)
              ELSE Node(TRUE, pos, "unmodelled", 0, FALSE)
    ELSE IF name \in KnownNames THEN Node(TRUE, pos, JoinSt(st, "unmodelled"), 0, FALSE)
    ELSE Node(TRUE, pos, "undef", 0, FALSE)

RECURSIVE parseAddSub(_, _)
RECURSIVE addSubRest(_, _)
RECURSIVE addSubStep(_, _, _)
RECURSIVE parseMulDiv(_, _)
RECURSIVE mulDivRest(_, _)
RECURSIVE mulDivStep(_, _, _, _)
RECURSIVE parseUnary(_, _)
RECURSIVE parsePow(_, _)
RECURSIVE powRest(_, _)
RECURSIVE parseAtom(_, _)
RECURSIVE parseArgs(_, _, _, _)
RECURSIVE argsRest(_, _, _, _)

Signed(op, r) ==
    IF ~r.ok THEN SyntaxError
    ELSE Node(TRUE, r.pos, r.st, IF op = "-" THEN -r.v ELSE r.v, FALSE)

Closed(toks, e) ==
    IF e.ok /\ IsOp(toks, e.pos, ")") THEN Node(TRUE, e.pos + 1, e.st, e.v, FALSE)
    ELSE SyntaxError

powStep(l, r) == IF r.ok THEN Binary("^", l, r) ELSE SyntaxError

parseAddSub(toks, i) == addSubRest(toks, parseMulDiv(toks, i))

addSubRest(toks, l) ==
    IF ~l.ok THEN SyntaxError
    ELSE IF IsOp(toks, l.pos, "+") \/ IsOp(toks, l.pos, "-")
         THEN addSubStep(toks, l, parseMulDiv(toks, l.pos + 1))
         ELSE l

addSubStep(toks, l, r) ==
    IF r.ok THEN addSubRest(toks, Binary(toks[l.pos].t, l, r)) ELSE SyntaxError

parseMulDiv(toks, i) == mulDivRest(toks, parseUnary(toks, i))

mulDivRest(toks, l) ==
    IF ~l.ok THEN SyntaxError
    ELSE IF IsOp(toks, l.pos, "*") \/ IsOp(toks, l.pos, "/")
         THEN mulDivStep(toks, toks[l.pos].t, l, parseUnary(toks, l.pos + 1))
         ELSE IF l.pos <= Len(toks)
                 /\ \/ toks[l.pos].k = "sym"
                    \/ IsOp(toks, l.pos, "(")
                    \/ toks[l.pos].k \in {"num", "frac"} /\ ~l.lit
              THEN \* implicit multiplication
                   mulDivStep(toks, "*", l, parsePow(toks, l.pos))
              ELSE l

mulDivStep(toks, op, l, r) ==
    IF r.ok THEN mulDivRest(toks, Binary(op, l, r)) ELSE SyntaxError

parseUnary(toks, i) ==
    IF IsOp(toks, i, "-") \/ IsOp(toks, i, "+")
    THEN Signed(toks[i].t, parseUnary(toks, i + 1))
    ELSE parsePow(toks, i)

parsePow(toks, i) == powRest(toks, parseAtom(toks, i))

powRest(toks, l) ==
    IF ~l.ok THEN SyntaxError
    ELSE IF IsOp(toks, l.pos, "^")
         THEN powStep(l, parseUnary(toks, l.pos + 1))
         ELSE l

parseAtom(toks, i) ==
    IF i > Len(toks) THEN SyntaxError
    ELSE CASE toks[i].k = "num" -> Node(TRUE, i + 1, "ok", toks[i].n, TRUE)
           [] toks[i].k = "frac" -> Node(TRUE, i + 1, "unmodelled", 0, TRUE)
           [] toks[i].k = "sym" ->
                IF IsOp(toks, i + 1, "(")
                THEN IF IsOp(toks, i + 2, ")")
                     THEN Call(toks[i].t, << >>, "ok", i + 3)
                     ELSE parseArgs(toks, i + 2, toks[i].t, [st |-> "ok", args |-> << >>])
                ELSE IF toks[i].t \in KnownNames \cup {"mean", "sum"}
                     THEN Node(TRUE, i + 1, "unmodelled", 0, FALSE)
                     ELSE Node(TRUE, i + 1, "undef", 0, FALSE)
           [] toks[i].k = "op" /\ toks[i].t = "(" -> Closed(toks, parseAddSub(toks, i + 1))
           [] OTHER -> SyntaxError

parseArgs(toks, i, name, acc) == argsRest(toks, parseAddSub(toks, i), name, acc)

argsRest(toks, e, name, acc) ==
    IF ~e.ok THEN SyntaxError
    ELSE IF IsOp(toks, e.pos, ",")
         THEN parseArgs(toks, e.pos + 1, name,
                        [st |-> JoinSt(acc.st, e.st), args |-> Append(acc.args, e.v)])
         ELSE IF IsOp(toks, e.pos, ")")
              THEN Call(name, Append(acc.args, e.v), JoinSt(acc.st, e.st), e.pos + 1)
              ELSE SyntaxError

\* the whole text must be one expression; the empty expression is the
\* constant undefined
parseTokens(toks, e) ==
    IF toks = << >> THEN Node(TRUE, 1, "undefined", 0, TRUE)
    ELSE IF e.ok /\ e.pos = Len(toks) + 1 THEN e ELSE SyntaxError

parseLexed(toks) == parseTokens(toks, IF toks = << >> THEN SyntaxError ELSE parseAddSub(toks, 1))

parse(expression) == parseLexed(lex(expression))

\* math.compile(expression) does not throw
isValidExpression(expression) == parse(expression).ok

\* a value of the program: typeof, and the number when typeof is number
\* (for a plot artifact, the number of points it records)
Number(n) == [type |-> "number", n |-> n]
\* a number that is no integer, to six decimal places
Decimal(millionths) == [type |-> "number", n |-> [millionths |-> millionths]]
\* a Unit of mathjs
UnitValue(n, unit) == [type |-> "object", n |-> n, unit |-> unit]
\* Infinity, -Infinity or NaN: the quotient of a division by zero
NonFinite == [type |-> "number", n |-> 0, finite |-> FALSE]
Undefined == [type |-> "undefined", n |-> 0]
PlotArtifact(points) == [type |-> "object", n |-> points]
Unmodelled == [type |-> "unmodelled", n |-> 0]

Return(v) == [threw |-> FALSE, message |-> "", value |-> v]
Throw(msg) == [threw |-> TRUE, message |-> msg, value |-> Undefined]

\* math.evaluate(expression), its error rethrown as a Calculation error
evaluated(e) ==
    IF ~e.ok \/ e.st = "undef" THEN Throw("Calculation error")
    ELSE IF e.st = "ok" THEN Return(Number(e.v))
    ELSE IF e.st = "decimal" THEN Return(Decimal(e.v))
    ELSE IF e.st = "nonfinite" THEN Return(NonFinite)
    ELSE IF e.st = "undefined" THEN Return(Undefined)
    ELSE Return(Unmodelled)

\* the entries of unitConversions whose unit name is a unit of mathjs with
\* the same factor, and the unit names that are no symbol of mathjs
mathUnits == {"mm", "cm", "m", "km", "mg", "g", "kg"}
undefinedSymbols == {"c", "f", "k"}

\* value from to to, for two units of mathjs: a Unit (when its number is an
\* integer), or an error when the units measure different things
evaluateConversion(value, from, to) ==
    IF from[1] # to[1] THEN Throw("Calculation error")
    ELSE IF Abs(value * from[3] * to[4]) % (from[4] * to[3]) = 0
         THEN Return(UnitValue(Quot(value * from[3] * to[4], from[4] * to[3]), to[2]))
         ELSE Return(Unmodelled)

\* math.evaluate of the tokens: of value unit to unit, or of an expression
evaluateLexed(toks) ==
    IF /\ Len(toks) = 4
       /\ toks[1].k = "num"
       /\ toks[2].k = "sym"
       /\ toks[3].k = "sym" /\ toks[3].t = "to"
       /\ toks[4].k = "sym"
    THEN IF toks[2].t \in undefinedSymbols \/ toks[4].t \in undefinedSymbols
         THEN Throw("Calculation error")
         ELSE IF toks[2].t \in mathUnits /\ toks[4].t \in mathUnits
              THEN LET row(name) == unitConversions[CHOOSE k \in 1..Len(unitConversions) :
                                                        unitConversions[k][2] = name]
                   IN  evaluateConversion(toks[1].n, row(toks[2].t), row(toks[4].t))
              ELSE Return(Unmodelled)
    ELSE evaluated(parseLexed(toks))

evaluateExpression(expression) == evaluateLexed(lex(expression))

(***************************************************************************)
(* Domain extractors                                                       *)
(***************************************************************************)
\* natural.WordTokenizer.tokenize: the maximal runs of word characters
RECURSIVE tokenizeFrom(_, _)
tokenizeFrom(s, i) ==
    IF i > Len(s) THEN << >>
    ELSE LET n == wordRun(s, i)
         IN  IF n = 0 THEN tokenizeFrom(s, i + 1)
             ELSE << SubSeq(s, i, i + n - 1) >> \o tokenizeFrom(s, i + n)

tokenize(s) == tokenizeFrom(s, 1)

\* !isNaN(parseFloat(token)) && isFinite(token), for a token of word
\* characters without an exponent or a radix prefix
isNumber(token) == token # "" /\ digitRun(token, 1) = Len(token)

numberWords ==
    <<"zero", "one", "two", "three", "four", "five", "six", "seven", "eight", "nine",
      "ten", "eleven", "twelve", "thirteen", "fourteen", "fifteen", "sixteen",
      "seventeen", "eighteen", "nineteen", "twenty">>

isNumberWord(token) == \E i \in 1..Len(numberWords) : numberWords[i] = token

\* numberWords[word] || word, as the text that is appended to the expression
wordToNumber(word) ==
    LET n == IF isNumberWord(word)
             THEN (CHOOSE i \in 1..Len(numberWords) : numberWords[i] = word) - 1
             ELSE 0
    IN  IF n # 0 THEN numToString(n) ELSE word

hasMathKeyword(token) == \E i \in 1..Len(mathKeywords) : mathKeywords[i][1] = token
mathKeyword(token) ==
    mathKeywords[CHOOSE i \in 1..Len(mathKeywords) : mathKeywords[i][1] = token][2]

\* what an extractor hands to calculate
Parsed(expression, operationType) ==
    [threw |-> FALSE, message |-> "", expression |-> expression,
     operationType |-> operationType, graphType |-> "", x |-> << >>, y |-> << >>,
     data |-> << >>, from |-> 0, to |-> 0, fromUnit |-> "", toUnit |-> "", category |-> ""]
ParseError(msg) == [threw |-> TRUE, message |-> msg]

\* the loop of parseNaturalLanguage, part_002 lines 672-691
RECURSIVE arithmeticFrom(_, _, _)
arithmeticFrom(tokens, i, expression) ==
    IF i > Len(tokens) THEN expression
    ELSE LET token == tokens[i]
             skip == ~isNumber(token) /\ ~hasMathKeyword(token) /\ token \in {"and", "with"}
             piece == IF isNumber(token) THEN token
                      ELSE IF hasMathKeyword(token) THEN mathKeyword(token)
                      ELSE IF isNumberWord(token) THEN wordToNumber(token)
                      ELSE ""
             space == IF ~skip /\ i < Len(tokens) /\ isNumber(tokens[i + 1]) THEN " " ELSE ""
         IN  arithmeticFrom(tokens, i + 1, expression \o piece \o space)

detectStatsType(input) ==
    IF containsStatsKeywords(input)
    THEN statsKeywords[CHOOSE i \in 1..Len(statsKeywords) :
                          /\ includes(input, statsKeywords[i][1])
                          /\ \A j \in 1..(i - 1) : ~includes(input, statsKeywords[j][1])][2]
    ELSE "mean"

RECURSIVE joinNumbers(_, _)
joinNumbers(numbers, sep) ==
    IF numbers = << >> THEN ""
    ELSE IF Len(numbers) = 1 THEN numToString(numbers[1])
    ELSE numToString(numbers[1]) \o sep \o joinNumbers(Tail(numbers), sep)

\* math.mean, math.median, math.std and math.sum throw on an empty list
parseStatisticsRequest(input) ==
    LET numbers == extractNumbers(input)
        statsType == detectStatsType(input)
    IN  IF numbers = << >> THEN ParseError("Cannot calculate of an empty array")
        ELSE Parsed(statsType \o "(" \o joinNumbers(numbers, ", ") \o ")", "statistics")

detectTrigFunction(input) ==
    IF includes(input, "sin") \/ includes(input, "sine") THEN "sin"
    ELSE IF includes(input, "cos") \/ includes(input, "cosine") THEN "cos"
    ELSE IF includes(input, "tan") \/ includes(input, "tangent") THEN "tan"
    ELSE "sin"

\* math.unit(undefined, 'deg') throws when the text holds no number
parseTrigonometryRequest(input) ==
    LET numbers == extractNumbers(input)
    IN  IF numbers = << >> THEN ParseError("No angle")
        ELSE Parsed(detectTrigFunction(input) \o "(" \o numToString(numbers[1]) \o ")",
                    "trigonometry")

parseNaturalLanguage(input) ==
    IF containsStatsKeywords(input) THEN parseStatisticsRequest(input)
    ELSE IF containsTrigKeywords(input) THEN parseTrigonometryRequest(input)
    ELSE Parsed(arithmeticFrom(tokenize(input), 1, ""), "arithmetic")

(***************************************************************************)
(* Unit conversion                                                         *)
(***************************************************************************)
RECURSIVE joinWords(_)
joinWords(words) ==
    IF words = << >> THEN ""
    ELSE IF Len(words) = 1 THEN words[1]
    ELSE words[1] \o " " \o joinWords(Tail(words))

\* the indexes of the entries of unitConversions, in order, whose unit name
\* occurs in text
RECURSIVE unitHits(_, _)
unitHits(text, k) ==
    IF k > Len(unitConversions) THEN << >>
    ELSE (IF includes(text, unitConversions[k][2]) THEN << k >> ELSE << >>)
         \o unitHits(text, k + 1)

\* the entries of one category among hits
RECURSIVE ofCategory(_, _)
ofCategory(hits, cat) ==
    IF hits = << >> THEN << >>
    ELSE (IF unitConversions[hits[1]][1] = cat THEN << hits[1] >> ELSE << >>)
         \o ofCategory(Tail(hits), cat)

Units(fromUnit, toUnit, category) ==
    [fromUnit |-> fromUnit, toUnit |-> toUnit, category |-> category]

\* t is one of the words that separate the source unit from the target
isSep(t) == t = "to" \/ t = "in" \/ t = "as"

nameOf(hits, i) == IF Len(hits) >= i THEN unitConversions[hits[i]][2] ELSE ""
categoryOf(hits) == IF hits = << >> THEN "" ELSE unitConversions[hits[1]][1]

\* part_002 lines 824-835: no separator, so the first two entries that occur
\* in the text, of any category
unitsAnywhere(hits) == Units(nameOf(hits, 1), nameOf(hits, 2), categoryOf(hits))

\* part_002 lines 796-821: the source unit before the separator, and the
\* target unit of the same category after it
unitsAround(src, after) ==
    Units(nameOf(src, 1), nameOf(ofCategory(after, categoryOf(src)), 1), categoryOf(src))

unitsAt(tokens, toIndex) ==
    unitsAround(unitHits(joinWords(SubSeq(tokens, 1, toIndex - 1)), 1),
                unitHits(joinWords(SubSeq(tokens, toIndex + 1, Len(tokens))), 1))

unitsOf(lower, tokens) ==
    IF \E i \in 1..Len(tokens) : isSep(tokens[i])
    THEN unitsAt(tokens, CHOOSE i \in 1..Len(tokens) :
                             /\ isSep(tokens[i])
                             /\ \A j \in 1..(i - 1) : ~isSep(tokens[j]))
    ELSE unitsAnywhere(unitHits(lower, 1))

\* part_002 lines 786-838; a unit that was not found is "" (null)
extractUnits(input) == unitsOf(toLowerCase(input), tokenize(toLowerCase(input)))

\* the categories whose table holds the unit name
CategoriesOf(name) ==
    { unitConversions[k][1] : k \in { j \in 1..Len(unitConversions) : unitConversions[j][2] = name } }

\* units[name] of the category's table is defined (and truthy)
hasUnit(category, name) ==
    \E k \in 1..Len(unitConversions) :
        unitConversions[k][1] = category /\ unitConversions[k][2] = name

factorOf(category, name) ==
    LET k == CHOOSE k \in 1..Len(unitConversions) :
                 unitConversions[k][1] = category /\ unitConversions[k][2] = name
    IN  << unitConversions[k][3], unitConversions[k][4] >>

\* the fraction n/d in lowest terms, as << numerator, denominator >>
RECURSIVE gcd(_, _)
gcd(a, b) == IF b = 0 THEN a ELSE gcd(b, a % b)

Ratio(n, d) ==
    << Quot(IF d < 0 THEN 0 - n ELSE n, gcd(Abs(n), Abs(d))), Abs(d) \div gcd(Abs(n), Abs(d)) >>

ratioAdd(a, b) == Ratio(a[1] * b[2] + b[1] * a[2], a[2] * b[2])
\* a * b, with the common factors divided out before the products
ratioMul(a, b) ==
    Ratio(Quot(a[1], gcd(Abs(a[1]), b[2])) * Quot(b[1], gcd(Abs(b[1]), a[2])),
          (a[2] \div gcd(Abs(b[1]), a[2])) * (b[2] \div gcd(Abs(a[1]), b[2])))

\* the Number of the program for a fraction that is an integer
numberOf(r) == IF r[2] = 1 THEN Return(Number(r[1])) ELSE Return(Unmodelled)

\* toCelsius with 273 for the offset of kelvin
toCelsiusRounded(value, from) ==
    IF from \in {"celsius", "c"} THEN value
    ELSE IF from \in {"fahrenheit", "f"} THEN ratioMul(ratioAdd(value, <<-32, 1>>), <<5, 9>>)
    ELSE ratioAdd(value, <<-273, 1>>)

\* part_002 lines 867-877, over the rationals: (value - 32) * 5/9 and
\* value - 273.15
toCelsius(value, from) ==
    IF from \in {"celsius", "c"} THEN value
    ELSE IF from \in {"fahrenheit", "f"} THEN ratioMul(ratioAdd(value, <<-32, 1>>), <<5, 9>>)
    ELSE ratioAdd(value, <<-27315, 100>>)

\* part_002 lines 879-888, over the rationals: (celsius * 9/5) + 32 and
\* celsius + 273.15
fromCelsius(celsius, to) ==
    IF to \in {"celsius", "c"} THEN celsius
    ELSE IF to \in {"fahrenheit", "f"} THEN ratioAdd(ratioMul(celsius, <<9, 5>>), <<32, 1>>)
    ELSE ratioAdd(celsius, <<27315, 100>>)

\* part_002 lines 863-889, for the results that are integers
convertTemperature(value, fromUnit, toUnit) ==
    IF fromUnit \notin {"celsius", "c", "fahrenheit", "f", "kelvin", "k"}
    THEN Throw("Unsupported temperature unit: " \o fromUnit)
    ELSE IF toUnit \notin {"celsius", "c", "fahrenheit", "f", "kelvin", "k"}
         THEN Throw("Unsupported temperature unit: " \o toUnit)
         ELSE numberOf(fromCelsius(toCelsius(<<value, 1>>, fromUnit), toUnit))

\* part_002 lines 854-857 and 863-889 over the rationals, for two units of
\* the category: value * units[fromUnit] / units[toUnit]
convertRatio(value, fromUnit, toUnit, category) ==
    IF category = "temperature" THEN fromCelsius(toCelsius(value, fromUnit), toUnit)
    ELSE ratioMul(ratioMul(value, Ratio(factorOf(category, fromUnit)[1],
                                        factorOf(category, fromUnit)[2])),
                  Ratio(factorOf(category, toUnit)[2], factorOf(category, toUnit)[1]))

\* convertUnit that does not look the units up in the category
convertUnitAnyCategory(value, fromUnit, toUnit, category) == Return(Number(value))

\* part_002 lines 843-858, for the results that are integers
convertUnit(value, fromUnit, toUnit, category) ==
    IF category = "temperature" THEN convertTemperature(value, fromUnit, toUnit)
    ELSE IF ~hasUnit(category, fromUnit) \/ ~hasUnit(category, toUnit)
         THEN Throw("Unsupported unit conversion: " \o fromUnit \o " to " \o toUnit)
         ELSE numberOf(convertRatio(<<value, 1>>, fromUnit, toUnit, category))

(***************************************************************************)
(* The Number arithmetic of convertTemperature: IEEE 754 doubles           *)
(***************************************************************************)
\* a natural number of any size, as its binary digits from the lowest
RECURSIVE addBits(_, _, _)
addBits(a, b, carry) ==
    IF a = << >> /\ b = << >> THEN (IF carry = 1 THEN <<1>> ELSE << >>)
    ELSE LET x == IF a = << >> THEN 0 ELSE a[1]
             y == IF b = << >> THEN 0 ELSE b[1]
         IN  << (x + y + carry) % 2 >>
             \o addBits(IF a = << >> THEN << >> ELSE Tail(a),
                        IF b = << >> THEN << >> ELSE Tail(b), (x + y + carry) \div 2)

\* a - b - borrow for a >= b, with as many digits as a
RECURSIVE subBits(_, _, _)
subBits(a, b, borrow) ==
    IF a = << >> THEN << >>
    ELSE LET y == (IF b = << >> THEN 0 ELSE b[1]) + borrow
         IN  << (a[1] + 2 - y) % 2 >>
             \o subBits(Tail(a), IF b = << >> THEN << >> ELSE Tail(b),
                        IF a[1] < y THEN 1 ELSE 0)

RECURSIVE mulBits(_, _)
mulBits(a, b) ==
    IF b = << >> THEN << >>
    ELSE addBits(IF b[1] = 1 THEN a ELSE << >>, <<0>> \o mulBits(a, Tail(b)), 0)

\* without the zeros above the highest digit
normBits(a) ==
    SubSeq(a, 1, CHOOSE i \in 0..Len(a) :
                     (i = 0 \/ a[i] = 1) /\ \A j \in (i + 1)..Len(a) : a[j] = 0)

\* a < b, for a and b without zeros above their highest digit
lessBits(a, b) ==
    \/ Len(a) < Len(b)
    \/ /\ Len(a) = Len(b)
       /\ \E i \in 1..Len(a) : a[i] < b[i] /\ \A j \in (i + 1)..Len(a) : a[j] = b[j]

\* the number that a hexadecimal numeral writes
RECURSIVE hexDigits(_)
hexDigits(s) ==
    IF s = "" THEN << >>
    ELSE LET v == CHOOSE n \in 0..15 : Char("0123456789abcdef", n + 1) = Char(s, Len(s))
         IN  << v % 2, (v \div 2) % 2, (v \div 4) % 2, v \div 8 >>
             \o hexDigits(SubSeq(s, 1, Len(s) - 1))

hexBits(s) == normBits(hexDigits(s))

zeros(n) == [i \in 1..n |-> 0]

\* the number (-1)^neg * m * 2^e with m odd, or zero
Double(neg, m, e) ==
    IF normBits(m) = << >> THEN [neg |-> FALSE, m |-> << >>, e |-> 0]
    ELSE LET low == CHOOSE k \in 0..Len(m) : m[k + 1] = 1 /\ \A i \in 1..k : m[i] = 0
         IN  [neg |-> neg, m |-> SubSeq(normBits(m), low + 1, Len(normBits(m))), e |-> e + low]

\* x + y of two numbers whose digits m and n stand at the same exponent
addAligned(xneg, m, yneg, n, e) ==
    IF xneg = yneg THEN Double(xneg, addBits(m, n, 0), e)
    ELSE IF lessBits(normBits(m), normBits(n)) THEN Double(yneg, subBits(n, m, 0), e)
    ELSE Double(xneg, subBits(m, n, 0), e)

\* x + y, exactly
exactAdd(x, y) ==
    IF x.e <= y.e THEN addAligned(x.neg, x.m, y.neg, zeros(y.e - x.e) \o y.m, x.e)
    ELSE addAligned(x.neg, zeros(x.e - y.e) \o x.m, y.neg, y.m, y.e)

negated(x) == IF x.m = << >> THEN x ELSE [x EXCEPT !.neg = ~x.neg]

\* the nearest number with 53 digits, the even one of two that are as near
\* (exponents stay within the range of the normal doubles)
rounded(x) ==
    IF Len(x.m) <= 53 THEN x
    ELSE LET k == Len(x.m) - 53
             up == /\ x.m[k] = 1
                   /\ (x.m[k + 1] = 1 \/ \E i \in 1..(k - 1) : x.m[i] = 1)
         IN  Double(x.neg, addBits(SubSeq(x.m, k + 1, Len(x.m)),
                                   IF up THEN <<1>> ELSE << >>, 0), x.e + k)

\* the + and - of two Numbers
doubleAdd(x, y) == rounded(exactAdd(x, y))
doubleSub(x, y) == rounded(exactAdd(x, negated(y)))

\* |x| <= |y|
magnitudeLeq(x, y) ==
    IF x.m = << >> THEN TRUE
    ELSE IF y.m = << >> THEN FALSE
    ELSE IF x.e <= y.e THEN ~lessBits(normBits(zeros(y.e - x.e) \o y.m), x.m)
    ELSE ~lessBits(y.m, normBits(zeros(x.e - y.e) \o x.m))

\* the Number literal 273.15
kelvinOffset == Double(FALSE, hexBits("11126666666666"), -44)

\* part_002 lines 867-888 in the arithmetic of Numbers, for the units
\* celsius and kelvin
toCelsiusDouble(value, from) ==
    IF from \in {"celsius", "c"} THEN value ELSE doubleSub(value, kelvinOffset)

fromCelsiusDouble(celsius, to) ==
    IF to \in {"celsius", "c"} THEN celsius ELSE doubleAdd(celsius, kelvinOffset)

convertTemperatureDouble(value, fromUnit, toUnit) ==
    fromCelsiusDouble(toCelsiusDouble(value, fromUnit), toUnit)

\* part_002 lines 770-779: the conversion throws, or the request is handed on
convertedRequest(value, u, result) ==
    IF result.threw THEN ParseError(result.message)
    ELSE [Parsed(numToString(value) \o " " \o u.fromUnit \o " to " \o u.toUnit,
                 "unit conversion") EXCEPT
             !.fromUnit = u.fromUnit, !.toUnit = u.toUnit, !.category = u.category]

\* part_002 lines 759-770
unitConversionOf(numbers, u) ==
    IF numbers = << >> THEN ParseError("No number found for unit conversion")
    ELSE IF u.fromUnit = "" \/ u.toUnit = ""
         THEN ParseError("Could not identify source and target units")
         ELSE convertedRequest(numbers[1], u,
                               convertUnit(numbers[1], u.fromUnit, u.toUnit, u.category))

\* part_002 lines 758-781
parseUnitConversion(input) == unitConversionOf(extractNumbers(input), extractUnits(input))

(***************************************************************************)
(* Graphing                                                                *)
(***************************************************************************)
detectGraphType(input) ==
    IF includes(input, "scatter") \/ includes(input, "points") THEN "scatter"
    ELSE IF includes(input, "histogram") \/ includes(input, "distribution") THEN "histogram"
    ELSE "function"

\* the first half of the numbers (r = 0) or the second half
halfOf(numbers, r) ==
    IF r = 0 THEN SubSeq(numbers, 1, Len(numbers) \div 2)
    ELSE SubSeq(numbers, Len(numbers) \div 2 + 1, Len(numbers))

\* numbers.filter((_, index) => index % 2 === r), indexes from 0
RECURSIVE everyOther(_, _)
everyOther(numbers, r) ==
    IF numbers = << >> THEN << >>
    ELSE (IF r = 0 THEN << numbers[1] >> ELSE << >>) \o everyOther(Tail(numbers), 1 - r)

parseScatterPlot(input) ==
    LET numbers == extractNumbers(input)
    IN  IF Len(numbers) < 4
        THEN ParseError("Scatter plot requires at least 2 data points (4 numbers)")
        ELSE [Parsed("scatter plot with " \o numToString(Len(everyOther(numbers, 0)))
                         \o " points", "graphing") EXCEPT
                 !.graphType = "scatter",
                 !.x = everyOther(numbers, 0),
                 !.y = everyOther(numbers, 1)]

parseHistogram(input) ==
    LET numbers == extractNumbers(input)
    IN  IF numbers = << >> THEN ParseError("Histogram requires data points")
        ELSE [Parsed("histogram with " \o numToString(Len(numbers)) \o " data points",
                     "graphing") EXCEPT
                 !.graphType = "histogram", !.data = numbers]

\* -?\d+(?:\.\d+)? matches the whole word
isNumForm(w) ==
    LET st == IF w # "" /\ Char(w, 1) = "-" THEN 2 ELSE 1
        n == digitRun(w, st)
        m == digitRun(w, st + n + 1)
    IN  /\ n >= 1
        /\ \/ st + n = Len(w) + 1
           \/ /\ st + n <= Len(w)
              /\ Char(w, st + n) = "."
              /\ m >= 1
              /\ st + n + 1 + m = Len(w) + 1

\* the split of a text at its white space, and whether the text is empty or
\* starts with white space and ends with none
RECURSIVE splitWords(_)
splitWords(t) ==
    LET u == trimLeft(t)
        n == CHOOSE k \in 0..Len(u) :
                 /\ \A j \in 1..k : ~IsSpace(Char(u, j))
                 /\ (k = Len(u) \/ IsSpace(Char(u, k + 1)))
    IN  IF u = "" THEN << >> ELSE << SubSeq(u, 1, n) >> \o splitWords(SubSeq(u, n + 1, Len(u)))

\* t matches (?:\s+from\s+NUM)?(?:\s+to\s+NUM)?$
tailMatches(t) ==
    LET w == splitWords(t)
    IN  \/ t = ""
        \/ /\ IsSpace(Char(t, 1))
           /\ ~IsSpace(Char(t, Len(t)))
           /\ \/ Len(w) = 2 /\ w[1] \in {"from", "to"} /\ isNumForm(w[2])
              \/ Len(w) = 4 /\ w[1] = "from" /\ isNumForm(w[2])
                            /\ w[3] = "to" /\ isNumForm(w[4])

plotVerbs == <<"plot", "graph", "draw", "show", "display">>

\* a plot verb at position p, white space after it, and text after that
verbAt(input, p) ==
    \E v \in 1..Len(plotVerbs) :
        LET e == p + Len(plotVerbs[v])
        IN  /\ e <= Len(input)
            /\ SubSeq(input, p, e - 1) = plotVerbs[v]
            /\ IsSpace(Char(input, e))
            /\ trimLeft(SubSeq(input, e, Len(input))) # ""

\* part_002 lines 961-969: the expression and the range words after it
functionPlotOf(expression, w) ==
    [Parsed(trim(expression), "graphing") EXCEPT
        !.graphType = "function",
        !.from = IF Len(w) >= 2 /\ w[1] = "from" THEN extractNumbers(w[2])[1] ELSE -10,
        !.to = IF Len(w) = 4 THEN extractNumbers(w[4])[1]
               ELSE IF Len(w) = 2 /\ w[1] = "to" THEN extractNumbers(w[2])[1]
               ELSE 10]

plotSplit(rest, k) == functionPlotOf(SubSeq(rest, 1, k), splitWords(SubSeq(rest, k + 1, Len(rest))))

\* the shortest expression that the range, if any, and the end follow
plotBody(rest) ==
    plotSplit(rest, CHOOSE j \in 1..Len(rest) :
                        /\ tailMatches(SubSeq(rest, j + 1, Len(rest)))
                        /\ \A i \in 1..(j - 1) : ~tailMatches(SubSeq(rest, i + 1, Len(rest))))

plotAfter(input, p, v) == plotBody(trimLeft(SubSeq(input, p + Len(plotVerbs[v]), Len(input))))

plotAt(input, p) ==
    plotAfter(input, p, CHOOSE j \in 1..Len(plotVerbs) :
                            SubSeq(input, p, p + Len(plotVerbs[j]) - 1) = plotVerbs[j])

\* part_002 lines 950-970: the leftmost verb, the shortest body
parseFunctionPlot(input) ==
    IF ~\E p \in 1..Len(input) : verbAt(input, p)
    THEN ParseError("Could not extract function expression")
    ELSE plotAt(input, CHOOSE q \in 1..Len(input) :
                           verbAt(input, q) /\ \A r \in 1..(q - 1) : ~verbAt(input, r))

parseGraphingRequest(input) ==
    LET graphType == detectGraphType(input)
    IN  IF graphType = "function" THEN parseFunctionPlot(input)
        ELSE IF graphType = "scatter" THEN parseScatterPlot(input)
        ELSE parseHistogram(input)

\* expression.replace(/x/g, r)
RECURSIVE replaceX(_, _)
replaceX(expression, r) ==
    IF expression = "" THEN ""
    ELSE (IF Char(expression, 1) = "x" THEN r ELSE Char(expression, 1))
         \o replaceX(SubSeq(expression, 2, Len(expression)), r)

\* the number of samples
points == 100

\* part_002 lines 1027-1049, for a range whose step is an integer: the
\* value of sample i
sampleAt(expression, from, to, i) ==
    LET step == (to - from) \div points
        xVal == from + i * step
    IN  evaluateExpression(replaceX(expression, "(" \o numToString(xVal) \o ")"))

\* isPoint without the test isFinite(yVal)
isPointAnyNumber(r) == ~r.threw /\ r.value.type = "number"

\* the sample did not throw and isFinite(yVal)
isPoint(r) ==
    /\ ~r.threw
    /\ r.value.type = "number"
    /\ "finite" \notin DOMAIN r.value
isModelled(r) == r.threw \/ r.value.type # "unmodelled"

\* the samples of the loop of generateFunctionData, in its order
samplesOf(expression, from, to) ==
    [k \in 1..(points + 1) |->
        [x |-> from + (k - 1) * ((to - from) \div points),
         r |-> sampleAt(expression, from, to, k - 1)]]

\* x.push(xVal); y.push(yVal) for the samples that are kept
pushed(kept) ==
    [x |-> [k \in 1..Len(kept) |-> kept[k].x],
     y |-> [k \in 1..Len(kept) |-> kept[k].r.value.n]]

generateFunctionData(expression, from, to) ==
    pushed(SelectSeq(samplesOf(expression, from, to), LAMBDA s : isPoint(s.r)))

functionDataModelled(expression, from, to) ==
    /\ to >= from
    /\ (to - from) % points = 0
    /\ \A i \in 0..points : isModelled(sampleAt(expression, from, to, i))

(***************************************************************************)
(* calculate                                                               *)
(***************************************************************************)
detectOperationType(expression) ==
    IF includes(expression, "sin") \/ includes(expression, "cos") \/ includes(expression, "tan")
    THEN "trigonometry"
    ELSE IF includes(expression, "log") \/ includes(expression, "ln") THEN "logarithm"
    ELSE IF includes(expression, "sqrt") THEN "square root"
    ELSE IF includes(expression, "^") \/ includes(expression, "**") THEN "exponentiation"
    ELSE "arithmetic"

\* classify that tests the statistics keywords before the unit keywords
classifyStatisticsFirst(text) ==
    IF isNaturalLanguage(text)
    THEN IF containsGraphKeywords(text) THEN parseGraphingRequest(text)
         ELSE IF containsStatsKeywords(text) THEN parseStatisticsRequest(text)
         ELSE IF containsUnitKeywords(text) THEN parseUnitConversion(text)
         ELSE parseNaturalLanguage(text)
    ELSE Parsed(text, detectOperationType(text))

\* part_002 lines 527-545: the extractor that runs, or the literal expression
classify(text) ==
    IF isNaturalLanguage(text)
    THEN IF containsGraphKeywords(text) THEN parseGraphingRequest(text)
         ELSE IF containsUnitKeywords(text) THEN parseUnitConversion(text)
         ELSE parseNaturalLanguage(text)
    ELSE Parsed(text, detectOperationType(text))

\* part_002 lines 527-545 and 664-670: the natural-language flag of a
\* cleaned text and the domain whose extractor it is handed to
routeOf(text) ==
    [natural |-> isNaturalLanguage(text),
     domain |-> IF ~isNaturalLanguage(text) THEN "expression"
                ELSE IF containsGraphKeywords(text) THEN "graphing"
                ELSE IF containsUnitKeywords(text) THEN "unit conversion"
                ELSE IF containsStatsKeywords(text) THEN "statistics"
                ELSE IF containsTrigKeywords(text) THEN "trigonometry"
                ELSE "arithmetic"]

\* where calculate stands before it generates a plot or returns: the text
\* that was classified, and either the error thrown, or the graphing
\* request to plot, or the value of the expression
Ran(text, parsed, threw, message, plots, value) ==
    [text |-> text, parsed |-> parsed, threw |-> threw, message |-> message,
     plots |-> plots, value |-> value]

\* part_002 lines 576-579
runValue(text, parsed, r) ==
    IF r.threw THEN Ran(text, parsed, TRUE, r.message, FALSE, Undefined)
    ELSE Ran(text, parsed, FALSE, "", FALSE, r.value)

\* part_002 lines 527-579
runParsed(text, parsed) ==
    IF parsed.threw THEN Ran(text, parsed, TRUE, parsed.message, FALSE, Undefined)
    ELSE IF parsed.operationType = "graphing"
         THEN Ran(text, parsed, FALSE, "", TRUE, Undefined)
         ELSE IF ~isValidExpression(parsed.expression)
              THEN Ran(text, parsed, TRUE, "Invalid mathematical expression", FALSE, Undefined)
              ELSE runValue(text, parsed, evaluateExpression(parsed.expression))

runText(text) == runParsed(text, classify(text))

\* part_002 lines 513-579, up to the call of a plot generator
run(input, last) == runText(substituteAns(cleanInput(input), last))

\* the number of bins of createHistogramBins: min(10, ceil(sqrt(n)))
numBins(n) ==
    LET root == CHOOSE k \in 0..n : k * k >= n /\ \A j \in 0..(k - 1) : j * j < n
    IN  IF root < 10 THEN root ELSE 10

\* part_002 lines 1307-1326, for a list of integers that is not empty: the
\* counts of the bins.  Bin i starts at min + i * binWidth and ends before
\* min + (i + 1) * binWidth, with binWidth = (max - min) / n; the tests are
\* made on the n-fold values, which are integers.  The labels are left out.
binCounts(data, min, max, n) ==
    [i \in 1..n |->
        Cardinality({k \in 1..Len(data) :
                        /\ data[k] * n >= min * n + (i - 1) * (max - min)
                        /\ data[k] * n < min * n + i * (max - min)})]

createHistogramBins(data) ==
    binCounts(data,
              CHOOSE v \in {data[k] : k \in 1..Len(data)} : \A k \in 1..Len(data) : v <= data[k],
              CHOOSE v \in {data[k] : k \in 1..Len(data)} : \A k \in 1..Len(data) : v >= data[k],
              numBins(Len(data)))

\* generateFunctionPlot, generateScatterPlot, generateHistogram up to their
\* await: createPlot writes the file (written says whether that worked)
generate(parsed, written) ==
    IF ~written THEN Throw("Failed to create plot")
    ELSE IF parsed.graphType = "function"
         THEN IF functionDataModelled(parsed.expression, parsed.from, parsed.to)
              THEN Return(PlotArtifact(
                       Len(generateFunctionData(parsed.expression, parsed.from, parsed.to).x)))
              ELSE Return(Unmodelled)
         ELSE IF parsed.graphType = "scatter" THEN Return(PlotArtifact(Len(parsed.x)))
         ELSE Return(PlotArtifact(Len(parsed.data)))

\* part_002 lines 581-590
successPayload(input, parsed, result, now) ==
    [success |-> TRUE, input |-> input, expression |-> parsed.expression,
     result |-> result, operationType |-> parsed.operationType, timestamp |-> now]

\* part_002 lines 618-624
failurePayload(input, message, now) ==
    [success |-> FALSE, input |-> input, error |-> message, timestamp |-> now]

\* settle whose try does not enclose the await of the plot generators
settleAwaitOutside(input, parsed, outcome, now) ==
    IF outcome.threw
    THEN [rejected |-> ~parsed.threw /\ parsed.operationType = "graphing",
          payload |-> failurePayload(input, outcome.message, now)]
    ELSE [rejected |-> FALSE, payload |-> successPayload(input, parsed, outcome.value, now)]

\* the try and catch of calculate: what the call hands to its caller
settle(input, parsed, outcome, now) ==
    IF outcome.threw
    THEN [rejected |-> FALSE, payload |-> failurePayload(input, outcome.message, now)]
    ELSE [rejected |-> FALSE, payload |-> successPayload(input, parsed, outcome.value, now)]

(***************************************************************************)
(* Memory                                                                  *)
(***************************************************************************)
historyLimit == 50

\* addHistoryEntry without the shift
addHistoryEntryUnbounded(history, entry) == Append(history, entry)

\* addHistoryEntry that drops the new entry of a full ledger
addHistoryEntryDropNewest(history, entry) ==
    IF Len(history) >= historyLimit THEN history ELSE Append(history, entry)

\* addHistoryEntry that puts the new entry in front
addHistoryEntryNewestFirst(history, entry) ==
    IF Len(history) + 1 > historyLimit THEN << entry >> \o SubSeq(history, 1, Len(history) - 1)
    ELSE << entry >> \o history

\* part_002 lines 1339-1344
addHistoryEntry(history, entry) ==
    IF Len(history) + 1 > historyLimit THEN Tail(Append(history, entry))
    ELSE Append(history, entry)

RECURSIVE reverse(_)
reverse(q) == IF q = << >> THEN << >> ELSE Append(reverse(Tail(q)), q[1])

\* Array.prototype.slice(-n) for n >= 1
sliceLast(q, n) == IF n >= Len(q) THEN q ELSE SubSeq(q, Len(q) - n + 1, Len(q))

\* getHistory without the reverse
getHistoryOldestFirst(history, limit) ==
    IF limit <= 0 THEN << >> ELSE sliceLast(history, limit)

\* part_002 lines 1346-1349
getHistory(history, limit) ==
    IF limit <= 0 THEN << >> ELSE reverse(sliceLast(history, limit))

historyEntry(payload) ==
    [input |-> payload.input, expression |-> payload.expression,
     operationType |-> payload.operationType, result |-> payload.result,
     timestamp |-> payload.timestamp]

\* numericResult that takes a result that is undefined for the number 0
numericResultLoose(payload) ==
    IF payload.result.type \in {"number", "undefined"} THEN << payload.result.n >> ELSE null

\* part_002 lines 594-599
numericResult(payload) ==
    IF payload.result.type = "number" THEN << payload.result.n >> ELSE null

\* what a call does to the memory: lastAnswer and history after it, and
\* whether it wrote the one and appended to the other
Memory(last, entries, wrote, appended) ==
    [lastAnswer |-> last, history |-> entries, wrote |-> wrote, appended |-> appended]

\* part_002 lines 601-612
remembered(memory, payload, numeric) ==
    Memory(IF numeric # null THEN numeric ELSE memory.lastAnswer,
           addHistoryEntry(memory.history, historyEntry(payload)),
           numeric # null, TRUE)

\* remember that records the failed calls too
rememberFailures(memory, payload) ==
    IF payload.success THEN remembered(memory, payload, numericResult(payload))
    ELSE Memory(memory.lastAnswer,
                addHistoryEntry(memory.history,
                                [input |-> payload.input, timestamp |-> payload.timestamp]),
                FALSE, TRUE)

\* remember that records only the numeric results
rememberNumericOnly(memory, payload) ==
    IF payload.success /\ numericResult(payload) # null
    THEN remembered(memory, payload, numericResult(payload))
    ELSE Memory(memory.lastAnswer, memory.history, FALSE, FALSE)

\* part_002 lines 592-613: the memory after a call that hands out payload
remember(memory, payload) ==
    IF payload.success THEN remembered(memory, payload, numericResult(payload))
    ELSE Memory(memory.lastAnswer, memory.history, FALSE, FALSE)

(***************************************************************************)
(* The agent and its callers                                               *)
(***************************************************************************)
\* the most calculate calls of a behaviour, the most calls suspended at
\* once, and the largest limit asked of getHistory
MaxCalls == 3
MaxPending == 2
MaxLimit == 2

\* the most calculate calls of a behaviour that fills the ledger
MaxLedgerCalls == 52

\* the request texts
Inputs ==
    {"2 + 3", "ans * 4", "ans - ans", "What is 15 plus 27?", "Calculate 10 times 4",
     "10 divide 2", "scatter 1 2 3 4", "answer 5", "2 +", "?"}

\* the most calculate calls of a behaviour of requests of every kind
MaxRequests == 2

\* the lists of numbers of the scatter requests
ScatterLists == { <<1, 2, 3, 4>>, <<5, -1, -6, 2>>, <<7, 8, 9, 10, 11, 12>> }

\* the request texts of every kind
Requests ==
    {"What is the average of 10, 20, 30?", "mean of 10, 20, 30",
     "convert 32 fahrenheit to celsius", "convert 5 km to m", "100 cm mm", "5000 kg",
     "5 kg to km", "convert 3 to 4",
     "sin(30)", "sine of 30", "tan 45", "cos(60)",
     "? 5", "PLOT x from 0 to 100", "p?l?ot x from 0 to 100", "2 + 3", "10 divide 2",
     "scatter 1 2 3", "scatter 1 2 3 4 5"}
    \cup { "scatter " \o joinNumbers(list, " ") : list \in ScatterLists }

\* the request text of the behaviours that fill the ledger
LedgerInput == "2 + 3"

VARIABLES
    history,     \* this.history
    lastAnswer,  \* this.lastAnswer: null or << n >>
    pending,     \* the calculate calls suspended at their await, oldest first
    now,         \* the clock: the number of calculate calls that have returned
    ret,         \* what the last operation handed to its caller
    log          \* the payloads of the calls that succeeded since the last clear

vars == << history, lastAnswer, pending, now, ret, log >>

Init ==
    /\ history = << >>
    /\ lastAnswer = null
    /\ pending = << >>
    /\ now = 0
    /\ ret = [op |-> "new"]
    /\ log = << >>

\* a calculate call returns: its memory update and its result
Returned(s, m, text, parsed, last) ==
    /\ history' = m.history
    /\ lastAnswer' = m.lastAnswer
    /\ now' = now + 1
    /\ ret' = [op |-> "calculate", rejected |-> s.rejected, payload |-> s.payload,
               text |-> text, parsed |-> parsed, last |-> last,
               wrote |-> m.wrote, appended |-> m.appended]
    /\ log' = IF s.payload.success THEN Append(log, s.payload) ELSE log

Settled(s, text, parsed, last) ==
    Returned(s, remember([history |-> history, lastAnswer |-> lastAnswer], s.payload),
             text, parsed, last)

Complete(input, text, parsed, outcome, last) ==
    Settled(settle(input, parsed, outcome, now + 1), text, parsed, last)

\* calculate(input) that awaits nothing: it runs to its return in one step
CalculateStep(input) ==
    /\ \E r \in {run(input, lastAnswer)} :
        /\ r.threw \/ ~r.plots
        /\ Complete(input, r.text, r.parsed,
                    IF r.threw THEN Throw(r.message) ELSE Return(r.value), lastAnswer)
    /\ UNCHANGED pending

Calculate(input) ==
    /\ now + Len(pending) < MaxCalls
    /\ CalculateStep(input)

\* calculate(input) of a graphing request: the plot file is written, and
\* the call is suspended at its await
SuspendStep(input) ==
    /\ \E r \in {run(input, lastAnswer)} :
        /\ ~r.threw /\ r.plots
        /\ \E written \in BOOLEAN :
               pending' = Append(pending, [input |-> input, text |-> r.text,
                                           parsed |-> r.parsed,
                                           outcome |-> generate(r.parsed, written),
                                           last |-> lastAnswer])
    /\ ret' = [op |-> "suspend"]
    /\ UNCHANGED << history, lastAnswer, now, log >>

CalculateSuspend(input) ==
    /\ now + Len(pending) < MaxCalls
    /\ Len(pending) < MaxPending
    /\ SuspendStep(input)

\* the oldest suspended call resumes after its await and returns
CalculateResume ==
    /\ pending # << >>
    /\ Complete(Head(pending).input, Head(pending).text, Head(pending).parsed,
                Head(pending).outcome, Head(pending).last)
    /\ pending' = Tail(pending)

\* clearHistory that forgets to reset lastAnswer
ClearHistoryKeepsAnswer ==
    /\ history' = << >>
    /\ lastAnswer' = lastAnswer
    /\ ret' = [op |-> "clearHistory", dropped |-> Len(history)]
    /\ log' = << >>
    /\ UNCHANGED << pending, now >>

\* part_002 lines 1351-1354; dropped is the number of entries it removed
ClearHistory ==
    /\ history' = << >>
    /\ lastAnswer' = null
    /\ ret' = [op |-> "clearHistory", dropped |-> Len(history)]
    /\ log' = << >>
    /\ UNCHANGED << pending, now >>

GetHistory(limit) ==
    /\ ret' = [op |-> "getHistory", limit |-> limit, entries |-> getHistory(history, limit)]
    /\ UNCHANGED << history, lastAnswer, pending, now, log >>

Next ==
    \/ \E input \in Inputs : Calculate(input)
    \/ \E input \in Inputs : CalculateSuspend(input)
    \/ CalculateResume
    \/ ClearHistory
    \/ \E limit \in 1..MaxLimit : GetHistory(limit)

Spec == Init /\ [][Next]_vars

\* one caller that fills the ledger past its cap, clears it and reads it
LedgerCalculate ==
    /\ now < MaxLedgerCalls
    /\ CalculateStep(LedgerInput)

NextLedger ==
    \/ LedgerCalculate
    \/ ClearHistory
    \/ \E limit \in 1..MaxLimit : GetHistory(limit)

SpecLedger == Init /\ [][NextLedger]_vars

\* a caller that makes a few requests of every kind
NextRequests ==
    \/ \E input \in Requests : now + Len(pending) < MaxRequests /\ CalculateStep(input)
    \/ \E input \in Requests : now + Len(pending) < MaxRequests /\ SuspendStep(input)
    \/ CalculateResume

SpecRequests == Init /\ [][NextRequests]_vars

(***************************************************************************)
(* The command line: one subcommand of a new process                       *)
(***************************************************************************)
\* the most points of a scatter command, and the points as they are typed
MaxPoints == 3
CommandPoints == {"1,2", "3,4", "-5,6", "7"}
PointLists == UNION { [1..n -> CommandPoints] : n \in 1..MaxPoints }

\* Number(s) of a decimal integer: << n >>, or << >> for NaN
toNumber(s) ==
    IF Len(s) > 1 /\ Char(s, 1) = "-" /\ \A i \in 2..Len(s) : IsDigit(Char(s, i))
    THEN << 0 - parseDigits(SubSeq(s, 2, Len(s))) >>
    ELSE IF \A i \in 1..Len(s) : IsDigit(Char(s, i)) THEN << parseDigits(s) >>
    ELSE << >>

\* index.js lines 257-260: [x, y] = point.split(',').map(Number) of a point
\* with at most one comma; a point with a NaN is dropped
dataPoint(point) ==
    LET commas == { i \in 1..Len(point) : Char(point, i) = "," }
        c == CHOOSE i \in commas : TRUE
    IN  IF commas = {} \/ toNumber(SubSeq(point, 1, c - 1)) = << >>
           \/ toNumber(SubSeq(point, c + 1, Len(point))) = << >>
        THEN << >>
        ELSE << << toNumber(SubSeq(point, 1, c - 1))[1],
                   toNumber(SubSeq(point, c + 1, Len(point)))[1] >> >>

RECURSIVE dataPoints(_)
dataPoints(pointArgs) ==
    IF pointArgs = << >> THEN << >> ELSE dataPoint(pointArgs[1]) \o dataPoints(Tail(pointArgs))

\* index.js lines 266-268
scatterQuery(dp) ==
    "scatter plot " \o joinNumbers([i \in 1..Len(dp) |-> dp[i][1]], " ")
                    \o " " \o joinNumbers([i \in 1..Len(dp) |-> dp[i][2]], " ")

\* index.js lines 254-280: the scatter subcommand
createScatterPlot(pointArgs) ==
    /\ ret.op = "new"
    /\ IF Len(dataPoints(pointArgs)) < 2
       THEN /\ ret' = [op |-> "error",
                       message |-> "At least 2 data points are required for scatter plot"]
            /\ UNCHANGED << history, lastAnswer, pending, now, log >>
       ELSE SuspendStep(scatterQuery(dataPoints(pointArgs)))

\* index.js lines 191-203: the calculate subcommand
calculateSingle(expression) ==
    /\ ret.op = "new"
    /\ CalculateStep(expression) \/ SuspendStep(expression)

\* index.js lines 343-346: the clear-history subcommand
clearHistory ==
    /\ ret.op = "new"
    /\ ClearHistory

NextCommand ==
    \/ \E pointArgs \in PointLists : createScatterPlot(pointArgs)
    \/ \E expression \in Inputs : calculateSingle(expression)
    \/ clearHistory
    \/ CalculateResume

SpecCommand == Init /\ [][NextCommand]_vars

(***************************************************************************)
(* The interactive session: one handler per line that is read              *)
(***************************************************************************)
\* the most calculations of a session, and the lines that are typed
MaxLines == 3
InteractiveLines ==
    {"2 + 3", " ans * 4 ", "scatter 1 2 3 4", "clear-history", "history", "help", "clear",
     "", "exit"}

\* index.js lines 127-168: what the handler does with the trimmed line
lineCommand(trimmedInput) ==
    IF trimmedInput \in {"exit", "quit"} THEN "exit"
    ELSE IF trimmedInput \in {"help", "info", "examples", "example", "e", "clear"} THEN "print"
    ELSE IF includes(trimmedInput, "history") THEN "showHistory"
    ELSE IF trimmedInput = "" THEN "prompt"
    ELSE "calculate"

\* rl.close() ends the process (index.js lines 186-188)
Running == ~(ret.op = "line" /\ ret.did = "exit")

\* a line that is a command of the session: showHistory reads the ledger
\* (index.js lines 304-321), the other commands leave the agent alone
Line(input) ==
    /\ Running
    /\ lineCommand(trim(input)) # "calculate"
    /\ ret' = [op |-> "line", line |-> trim(input), did |-> lineCommand(trim(input)),
               entries |-> IF lineCommand(trim(input)) = "showHistory"
                           THEN getHistory(history, 10) ELSE << >>]
    /\ UNCHANGED << history, lastAnswer, pending, now, log >>

\* index.js lines 170-183: any other line is a request
LineCalculate(input) ==
    /\ Running
    /\ lineCommand(trim(input)) = "calculate"
    /\ now + Len(pending) < MaxLines
    /\ CalculateStep(trim(input)) \/ SuspendStep(trim(input))

NextInteractive ==
    \/ \E input \in InteractiveLines : Line(input)
    \/ \E input \in InteractiveLines : LineCalculate(input)
    \/ Running /\ CalculateResume

SpecInteractive == Init /\ [][NextInteractive]_vars

(***************************************************************************)
(* Conversions there and back                                              *)
(***************************************************************************)
\* the units and the values that are converted: fractions, and Numbers
ConvertUnits ==
    {"mm", "cm", "m", "km", "in", "ft", "yd", "g", "kg", "lb", "oz", "ml", "l", "s", "min", "h",
     "c", "f", "k", "celsius", "fahrenheit", "kelvin"}

RatioValues == { <<0, 1>>, <<1, 1>>, <<-40, 1>>, <<25, 1>>, <<1, 3>>, <<5, 2>> }

\* 2^-50, 1, -40, 0.1 and 0.000001
DoubleValues ==
    { Double(FALSE, <<1>>, -50), Double(FALSE, <<1>>, 0), Double(TRUE, <<1, 0, 1>>, 3),
      Double(FALSE, hexBits("1999999999999a"), -56),
      Double(FALSE, hexBits("10c6f7a0b5ed8d"), -72) }

\* convertUnit(convertUnit(value, fromUnit, toUnit), toUnit, fromUnit) over
\* the rationals, on a new agent
ConvertThereAndBack(value, fromUnit, toUnit) ==
    /\ ret.op = "new"
    /\ \E category \in CategoriesOf(fromUnit) \cap CategoriesOf(toUnit) :
           \E there \in {convertRatio(value, fromUnit, toUnit, category)} :
               ret' = [op |-> "convertUnit", value |-> value, fromUnit |-> fromUnit,
                       toUnit |-> toUnit, there |-> there,
                       back |-> convertRatio(there, toUnit, fromUnit, category)]
    /\ UNCHANGED << history, lastAnswer, pending, now, log >>

\* the same in the arithmetic of Numbers, between celsius and kelvin
ConvertNumberThereAndBack(value, fromUnit, toUnit) ==
    /\ ret.op = "new"
    /\ \E there \in {convertTemperatureDouble(value, fromUnit, toUnit)} :
           ret' = [op |-> "convertTemperature", value |-> value, fromUnit |-> fromUnit,
                   toUnit |-> toUnit, there |-> there,
                   back |-> convertTemperatureDouble(there, toUnit, fromUnit)]
    /\ UNCHANGED << history, lastAnswer, pending, now, log >>

NextConvert ==
    \/ \E value \in RatioValues, fromUnit \in ConvertUnits, toUnit \in ConvertUnits :
           ConvertThereAndBack(value, fromUnit, toUnit)
    \/ \E value \in DoubleValues, fromUnit, toUnit \in {"c", "celsius", "k", "kelvin"} :
           ConvertNumberThereAndBack(value, fromUnit, toUnit)

SpecConvert == Init /\ [][NextConvert]_vars

(***************************************************************************)
(* The extractors and the plot generators, each called once                *)
(***************************************************************************)
\* the words and the angles of the trigonometry requests
TrigWords == <<"sin", "sine", "cos", "cosine", "tan", "tangent", "angle">>
Angles == {30, 45, 60}

\* the most data values of a histogram, and the values
MaxData == 4
DataValues == {1, 2, 4}
DataLists == UNION { [1..n -> DataValues] : n \in 1..MaxData }

\* the function plots: << expression, from, to >>
FunctionPlots ==
    { <<"x", 0, 100>>, <<"x * x", -100, 100>>, <<"0/x", -100, 100>>, <<"0/x", 0, 100>>,
      <<"y", 0, 100>>, <<"7", -200, 0>> }

\* part_002 lines 731-753
ExtractTrigonometry(input) ==
    /\ ret.op = "new"
    /\ ret' = [op |-> "parseTrigonometryRequest", input |-> input,
               parsed |-> parseTrigonometryRequest(input)]
    /\ UNCHANGED << history, lastAnswer, pending, now, log >>

\* part_002 lines 658-694
ExtractArithmetic(input) ==
    /\ ret.op = "new"
    /\ ret' = [op |-> "parseNaturalLanguage", input |-> input,
               parsed |-> parseNaturalLanguage(input)]
    /\ UNCHANGED << history, lastAnswer, pending, now, log >>

\* part_002 lines 1231-1254: the data, and what the call hands back
generateFunctionPlot(expression, from, to) ==
    /\ ret.op = "new"
    /\ \E written \in BOOLEAN :
           ret' = [op |-> "generateFunctionPlot", expression |-> expression,
                   from |-> from, to |-> to, written |-> written,
                   data |-> generateFunctionData(expression, from, to),
                   outcome |-> generate(functionPlotOf(expression,
                                                       <<"from", numToString(from),
                                                         "to", numToString(to)>>),
                                        written)]
    /\ UNCHANGED << history, lastAnswer, pending, now, log >>

\* part_002 lines 1282-1302: the bins, and what the call hands back
generateHistogram(data) ==
    /\ ret.op = "new"
    /\ \E written \in BOOLEAN :
           ret' = [op |-> "generateHistogram", data |-> data, written |-> written,
                   counts |-> createHistogramBins(data),
                   outcome |-> generate([Parsed("", "graphing") EXCEPT
                                            !.graphType = "histogram", !.data = data],
                                        written)]
    /\ UNCHANGED << history, lastAnswer, pending, now, log >>

NextExtract ==
    \/ \E w \in 1..Len(TrigWords), angle \in Angles :
           ExtractTrigonometry(TrigWords[w] \o " of " \o numToString(angle))
    \/ \E w \in 1..Len(numberWords) : ExtractArithmetic(numberWords[w] \o " add two")
    \/ \E w \in 1..Len(numberWords) : ExtractArithmetic("two times " \o numberWords[w])
    \/ \E plot \in FunctionPlots : generateFunctionPlot(plot[1], plot[2], plot[3])
    \/ \E data \in DataLists : generateHistogram(data)

SpecExtract == Init /\ [][NextExtract]_vars

(***************************************************************************)
(* The memory commands of one CalculatorCLI                                *)
(***************************************************************************)
\* the largest index asked of recall, and the requests that fill the ledger
MaxIndex == 3
MemoryInputs == {"2 + 3", "ans * 4", "2 +"}

\* index.js lines 312-320: the lines of the listing, newest entry first,
\* each with the number that is printed in front of it and its result
listing(entries) ==
    [i \in 1..Len(entries) |-> [idx |-> Len(entries) - (i - 1), res |-> entries[i].result]]

\* index.js lines 304-321; num is the option -n, or null when it is absent
showHistory(num) ==
    /\ ret' = [op |-> "showHistory", num |-> num,
               lines |-> listing(getHistory(history, IF num = null THEN 10 ELSE num[1]))]
    /\ UNCHANGED << history, lastAnswer, pending, now, log >>

\* index.js lines 323-341; index is the argument, or null when it is absent.
\* said is what is printed: the result recalled, or that there is none
recallResult(index) ==
    /\ \E entries \in {getHistory(history, 1000)},
          idx \in {IF index # null /\ index[1] > 0 THEN index[1] ELSE 1} :
           ret' = [op |-> "recallResult", index |-> index, idx |-> idx,
                   said |-> IF entries = << >> THEN "History is empty."
                            ELSE IF idx > Len(entries) THEN "Invalid history index."
                            ELSE "Recalled",
                   res |-> IF idx <= Len(entries) THEN << entries[idx].result >> ELSE null]
    /\ UNCHANGED << history, lastAnswer, pending, now, log >>

NextMemory ==
    \/ \E input \in MemoryInputs : Calculate(input)
    \/ \E num \in {null} \cup { << n >> : n \in 1..MaxLimit } : showHistory(num)
    \/ \E index \in {null} \cup { << k >> : k \in 0..MaxIndex } : recallResult(index)

SpecMemory == Init /\ [][NextMemory]_vars

\* every value of the behaviours is one the model computes
AllModelled ==
    /\ ret.op = "calculate" /\ ret.payload.success => ret.payload.result.type # "unmodelled"
    /\ \A i \in 1..Len(pending) :
           ~pending[i].outcome.threw => pending[i].outcome.value.type # "unmodelled"

(***************************************************************************)
(* Properties                                                              *)
(***************************************************************************)
Min(a, b) == IF a <= b THEN a ELSE b

\* C1: the history never holds more than historyLimit entries, and once
\* more than historyLimit requests have succeeded since the last clear it
\* holds exactly historyLimit entries, none of them the oldest of those
\* requests
HistoryBounded ==
    /\ Len(history) <= historyLimit
    /\ Len(log) > historyLimit =>
           /\ Len(history) = historyLimit
           /\ \A i \in 1..Len(history) : history[i] # historyEntry(log[1])

\* the call that first overflows the ledger has returned
HistoryOverflowed == ret.op = "calculate" /\ Len(log) = historyLimit + 1

\* C2: the history is the entries of the last min(N, historyLimit) of the
\* N requests that succeeded since construction or the last clear, one
\* entry each, in the order they returned
LedgerIsFifo ==
    /\ Len(history) = Min(Len(log), historyLimit)
    /\ \A i \in 1..Len(history) :
           history[i] = historyEntry(log[Len(log) - Len(history) + i])

\* two entries have been evicted, and the third request is now the oldest
LedgerEvictedTwice ==
    /\ Len(log) = historyLimit + 2
    /\ history[1] = historyEntry(log[3])
    /\ history[historyLimit] = historyEntry(log[historyLimit + 2])

\* C3: a calculate call that returns success = false leaves history and
\* lastAnswer as they were, and every entry of the history is the entry of
\* a request that succeeded
FailureKeepsMemory ==
    /\ [](\A i \in 1..Len(history) :
              \E j \in 1..Len(log) : log[j].success /\ history[i] = historyEntry(log[j]))
    /\ [][now' # now /\ ~ret'.payload.success =>
              history' = history /\ lastAnswer' = lastAnswer]_vars

\* a call has failed on an agent that remembers an earlier success
FailedAfterSuccess ==
    /\ ret.op = "calculate"
    /\ ~ret.payload.success
    /\ history # << >>
    /\ lastAnswer # null

\* the result of the last request of q whose result is a number, or null
RECURSIVE LastNumeric(_)
LastNumeric(q) ==
    IF q = << >> THEN null
    ELSE IF q[Len(q)].result.type = "number" THEN << q[Len(q)].result.n >>
    ELSE LastNumeric(SubSeq(q, 1, Len(q) - 1))

\* C4: lastAnswer is null when no request has succeeded with a number since
\* construction or the last clear, and is otherwise the result of the last
\* such request; a call that fails, or succeeds with a result that is not
\* a number, leaves lastAnswer as it was
LastAnswerIsLastNumeric ==
    /\ [](lastAnswer = LastNumeric(log))
    /\ [][now' # now /\ (~ret'.payload.success \/ ret'.payload.result.type # "number") =>
              lastAnswer' = lastAnswer]_vars

\* a request has succeeded with a result that is not a number on an agent
\* that holds a last answer
NonNumericAfterNumeric ==
    /\ ret.op = "calculate"
    /\ ret.payload.success
    /\ ret.payload.result.type # "number"
    /\ lastAnswer # null

\* t is s with every whole word ans replaced by r: the text before, between
\* and after the matches is kept, and every match has become r
Substituted(s, r, t) ==
    /\ Len(t) = Len(s) + Cardinality({j \in 1..Len(s) : AnsAt(s, j)}) * (Len(r) - 3)
    /\ \A i \in 1..Len(s) :
           \E at \in {i + Cardinality({j \in 1..(i - 1) : AnsAt(s, j)}) * (Len(r) - 3)} :
               IF AnsAt(s, i) THEN SubSeq(t, at, at + Len(r) - 1) = r
               ELSE \/ \E j \in 1..(i - 1) : AnsAt(s, j) /\ i < j + 3
                    \/ SubSeq(t, at, at) = SubSeq(s, i, i)

\* C5: the text calculate classifies is the normalized input with every
\* whole word ans replaced by the last answer when there is one, and the
\* normalized input itself when there is none; "ans * 4" after a last
\* answer of 5 yields 20
AnsIsSubstituted ==
    ret.op = "calculate" =>
        /\ ret.last = null => ret.text = cleanInput(ret.payload.input)
        /\ ret.last # null =>
               Substituted(cleanInput(ret.payload.input), numToString(ret.last[1]), ret.text)
        /\ ret.payload.input = "ans * 4" /\ ret.last = << 5 >> =>
               ret.payload.success /\ ret.payload.result = Number(20)

\* "2 + 3" and then "ans * 4" have been calculated
AnsTimesFour ==
    /\ ret.op = "calculate"
    /\ ret.payload.input = "ans * 4"
    /\ ret.last = << 5 >>
    /\ ret.text = "5 * 4"
    /\ Len(history) = 2
    /\ history[1].input = "2 + 3"

\* C6: from a clear until the next request succeeds the history and
\* lastAnswer are both empty, and no state holds a last answer with an
\* empty history
ClearEmptiesBoth ==
    /\ log = << >> => history = << >> /\ lastAnswer = null
    /\ ret.op = "clearHistory" => history = << >> /\ lastAnswer = null
    /\ lastAnswer # null => history # << >>

\* a clear has emptied a history of two entries
ClearedTwoEntries == ret.op = "clearHistory" /\ ret.dropped = 2 /\ log = << >>

\* C7: getHistory(n) for n >= 1 returns the min(n, length) newest entries,
\* the newest first, and changes neither the history nor lastAnswer
GetHistoryNewestFirst ==
    /\ [](ret.op = "getHistory" =>
              /\ Len(ret.entries) = Min(ret.limit, Len(history))
              /\ \A i \in 1..Len(ret.entries) :
                     ret.entries[i] = history[Len(history) + 1 - i])
    /\ [][ret'.op = "getHistory" => history' = history /\ lastAnswer' = lastAnswer]_vars

\* getHistory(2) has returned two of three entries
GotTwoOfThree ==
    /\ ret.op = "getHistory"
    /\ ret.limit = 2
    /\ Len(history) = 3
    /\ Len(ret.entries) = 2

\* C8, as the specification states it: a calculate call appends a history
\* entry if and only if it writes lastAnswer
AppendsIffWrites == ret.op = "calculate" => (ret.appended <=> ret.wrote)

\* C8, as the code has it: a call that succeeds appends one entry, its own,
\* to the history, whatever its result; it writes lastAnswer in the same
\* step exactly when its result is a number; a call that fails does neither
MemoryUpdatedOncePerSuccess ==
    [][now' # now =>
          /\ ret'.appended <=> ret'.payload.success
          /\ ret'.wrote <=> ret'.payload.success /\ ret'.payload.result.type = "number"
          /\ IF ret'.payload.success
             THEN \/ history' = Append(history, historyEntry(ret'.payload))
                  \/ /\ Len(history) = historyLimit
                     /\ history' = Append(Tail(history), historyEntry(ret'.payload))
             ELSE history' = history
          /\ lastAnswer' = IF ret'.wrote THEN << ret'.payload.result.n >> ELSE lastAnswer]_vars

\* a plot has been generated: its entry is appended and lastAnswer is not
\* written
PlotAppendedOnly ==
    /\ ret.op = "calculate"
    /\ ret.payload.success
    /\ ret.payload.operationType = "graphing"
    /\ ret.appended
    /\ ~ret.wrote

\* C9: calculate always returns: a failure is a value with success = false,
\* an error message and no result, and a success carries a result and no
\* error
CalculateAlwaysReturns ==
    ret.op = "calculate" =>
        /\ ~ret.rejected
        /\ ret.payload.success =>
               "result" \in DOMAIN ret.payload /\ "error" \notin DOMAIN ret.payload
        /\ ~ret.payload.success =>
               /\ "error" \in DOMAIN ret.payload
               /\ ret.payload.error # ""
               /\ "result" \notin DOMAIN ret.payload

\* a plot file could not be written, and the call has returned the failure
PlotFailureReturned ==
    /\ ret.op = "calculate"
    /\ ~ret.payload.success
    /\ ret.payload.error = "Failed to create plot"

\* C10: "What is 15 plus 27?" and "Calculate 10 times 4" succeed as
\* arithmetic with the results 42 and 40
NaturalArithmeticSucceeds ==
    ret.op = "calculate" /\ ret.payload.input \in {"What is 15 plus 27?", "Calculate 10 times 4"} =>
        /\ ret.payload.success
        /\ ret.payload.operationType = "arithmetic"
        /\ ret.payload.result =
               Number(IF ret.payload.input = "What is 15 plus 27?" THEN 42 ELSE 40)

\* C11: the request "What is the average of 10, 20, 30?" succeeds as
\* statistics with the mean of its numbers, 20
AverageSucceeds ==
    ret.op = "calculate" /\ ret.payload.input = "What is the average of 10, 20, 30?" =>
        /\ ret.payload.success
        /\ ret.payload.operationType = "statistics"
        /\ ret.payload.result = Number(20)

\* C12: the request "convert 32 fahrenheit to celsius" succeeds as a unit
\* conversion from fahrenheit to celsius with the result 0, and the result
\* that calculate returns carries the target unit
FahrenheitToCelsius ==
    ret.op = "calculate" /\ ret.payload.input = "convert 32 fahrenheit to celsius" =>
        /\ ret.payload.success
        /\ ret.payload.operationType = "unit conversion"
        /\ ret.payload.result = Number(0)
        /\ ret.parsed.fromUnit = "fahrenheit"
        /\ ret.parsed.toUnit = "celsius"
        /\ "toUnit" \in DOMAIN ret.payload
        /\ ret.payload.toUnit = "celsius"

\* sin, cos and tan of an angle in degrees, in millionths, for the angles
\* of the requests
degrees ==
    << <<"sin", 30, 500000>>, <<"cos", 60, 500000>>, <<"tan", 45, 1000000>> >>

\* C13: the result of a trigonometry request for function f and angle A is
\* f of A degrees: sin(30), "sine of 30", cos(60) give 0.5 and "tan 45" gives 1
AngleInDegrees ==
    \A k \in 1..Len(degrees) :
        ret.op = "calculate"
        /\ ret.payload.input \in {"sin(30)", "sine of 30", "cos(60)", "tan 45"}
        /\ detectTrigFunction(ret.text) = degrees[k][1]
        /\ extractNumbers(ret.text) = << degrees[k][2] >>
        => /\ ret.payload.success
           /\ ret.payload.result = Decimal(degrees[k][3])

\* the request is one that calculate hands to the unit conversion extractor
UnitRequest ==
    /\ ret.op = "calculate"
    /\ isNaturalLanguage(ret.text)
    /\ ~containsGraphKeywords(ret.text)
    /\ containsUnitKeywords(ret.text)

Mismatched(u) ==
    \/ u.fromUnit = ""
    \/ u.toUnit = ""
    \/ CategoriesOf(u.fromUnit) \cap CategoriesOf(u.toUnit) = {}

\* C14: a unit conversion that succeeds has both units in one category; a
\* request with a unit missing, or with units of two categories, fails with
\* an error and yields no conversion and no result
SameCategoryOrError ==
    UnitRequest =>
        /\ ret.payload.success =>
               /\ ret.payload.operationType = "unit conversion"
               /\ ~Mismatched(ret.parsed)
               /\ ret.parsed.category \in CategoriesOf(ret.parsed.fromUnit)
               /\ ret.parsed.category \in CategoriesOf(ret.parsed.toUnit)
        /\ Mismatched(extractUnits(ret.text)) =>
               /\ ret.parsed.threw
               /\ ~ret.payload.success
               /\ ret.payload.error # ""
               /\ "result" \notin DOMAIN ret.payload

\* a conversion within one category has succeeded, and a request whose
\* units are of two categories has failed
MismatchAfterConversion ==
    /\ UnitRequest
    /\ log # << >>
    /\ log[1].operationType = "unit conversion"
    /\ extractUnits(ret.text).fromUnit # ""
    /\ extractUnits(ret.text).toUnit # ""
    /\ Mismatched(extractUnits(ret.text))
    /\ ~ret.payload.success

\* C16: a scatter request with 2k numbers has k x-values and k y-values,
\* the i-th x the number 2i-1 of the text and the i-th y the number 2i
ScatterPairsInOrder ==
    \A list \in ScatterLists :
        ret.op = "calculate" /\ ret.payload.input = "scatter " \o joinNumbers(list, " ") =>
            /\ ~ret.parsed.threw
            /\ ret.parsed.graphType = "scatter"
            /\ Len(ret.parsed.x) = Len(list) \div 2
            /\ Len(ret.parsed.y) = Len(list) \div 2
            /\ \A i \in 1..(Len(list) \div 2) :
                   /\ ret.parsed.x[i] = list[2 * i - 1]
                   /\ ret.parsed.y[i] = list[2 * i]

\* a scatter request with six numbers was plotted
ScatterOfSixPlotted ==
    /\ ret.op = "calculate"
    /\ ret.payload.input = "scatter 7 8 9 10 11 12"
    /\ ret.payload.success
    /\ ret.parsed.x = <<7, 9, 11>>
    /\ ret.parsed.y = <<8, 10, 12>>

ClearHistoryLineClears ==
    ret.op = "line" /\ ret.line = "clear-history" =>
        /\ history = << >>
        /\ lastAnswer = null

\* C19: while a request is suspended at the await of its plot, no other
\* request starts and none touches the ledger: the next step of a request
\* is the return of the suspended one
RequestsSerialized ==
    [][pending # << >> =>
           \/ pending' = Tail(pending)
           \/ pending' = pending /\ now' = now /\ history' = history
              /\ lastAnswer' = lastAnswer]_vars

\* C20: the classification of a request (its natural-language flag and its
\* domain) is the classification of the normalized request
ClassificationIdempotent ==
    ret.op = "calculate" =>
        /\ ret.text = substituteAns(cleanInput(ret.payload.input), ret.last)
        /\ routeOf(ret.text)
             = routeOf(substituteAns(cleanInput(cleanInput(ret.payload.input)), ret.last))

\* a request was classified whose normalized text changes when it is
\* normalized again
ClassifiedUnstableText ==
    /\ ret.op = "calculate"
    /\ ret.payload.input = "? 5"
    /\ cleanInput(cleanInput(ret.payload.input)) # cleanInput(ret.payload.input)
    /\ routeOf(ret.text).domain = "expression"

WriteAndAppendTogether ==
    [][now' # now =>
          /\ ret'.wrote =>
                 /\ lastAnswer' = << ret'.payload.result.n >>
                 /\ Len(history') > 0
                 /\ history'[Len(history')] = historyEntry(ret'.payload)
          /\ ret'.appended => history'[Len(history')].timestamp = now'
          /\ \A i, j \in 1..Len(history') :
                 i < j => history'[i].timestamp < history'[j].timestamp]_vars

\* a plot request was suspended, a later request wrote lastAnswer and
\* appended its entry meanwhile, and the plot request returned after it
ReturnedAfterLaterCall ==
    /\ ret.op = "calculate"
    /\ ret.payload.success
    /\ ret.payload.operationType = "graphing"
    /\ Len(history) = 2
    /\ history[1].result.type = "number"
    /\ ret.last = null
    /\ lastAnswer = << history[1].result.n >>
    /\ history[2] = historyEntry(ret.payload)

\* C22: a text is natural language exactly when it holds a graphing
\* keyword, or holds a letter and none of the symbols + - * / ^ ( ); a text
\* that is not natural language is the expression itself, and a text with
\* no letter and with a symbol is never natural language
NaturalIffWordsWithoutSymbols ==
    ret.op = "calculate" =>
        \E hasWords \in {\E i \in 1..Len(ret.text) : IsLetter(Char(ret.text, i))},
           hasSymbols \in {\E i \in 1..Len(ret.text) : IsMathSymbol(Char(ret.text, i))} :
            /\ routeOf(ret.text).natural
                 <=> containsGraphKeywords(ret.text) \/ (hasWords /\ ~hasSymbols)
            /\ ~routeOf(ret.text).natural =>
                   ret.parsed = Parsed(ret.text, detectOperationType(ret.text))
            /\ ~hasWords /\ hasSymbols =>
                   ret.parsed = Parsed(ret.text, detectOperationType(ret.text))

\* a scatter request with a minus sign was handed to the graphing extractor
GraphKeywordWithSymbol ==
    /\ ret.op = "calculate"
    /\ ret.text = "scatter 5 -1 -6 2"
    /\ routeOf(ret.text).natural
    /\ ret.parsed.operationType = "graphing"

\* C23: the extractor that runs on a natural-language text is the one of
\* the first test that holds, in the order graphing keywords, unit keywords
\* or unit names, statistics keywords, trigonometry keywords, and the
\* arithmetic extractor when none holds
FirstMatchingExtractor ==
    ret.op = "calculate" /\ routeOf(ret.text).natural =>
        ret.parsed =
            IF containsGraphKeywords(ret.text) THEN parseGraphingRequest(ret.text)
            ELSE IF containsUnitKeywords(ret.text) THEN parseUnitConversion(ret.text)
            ELSE IF containsStatsKeywords(ret.text) THEN parseStatisticsRequest(ret.text)
            ELSE IF containsTrigKeywords(ret.text) THEN parseTrigonometryRequest(ret.text)
            ELSE Parsed(arithmeticFrom(tokenize(ret.text), 1, ""), "arithmetic")

\* a text with a statistics keyword and a unit name went to the unit
\* conversion extractor
UnitsBeforeStatistics ==
    /\ ret.op = "calculate"
    /\ ret.text = "mean of 10, 20, 30"
    /\ containsStatsKeywords(ret.text)
    /\ containsUnitKeywords(ret.text)
    /\ ret.parsed = parseUnitConversion(ret.text)
    /\ ret.parsed # parseStatisticsRequest(ret.text)

\* C24: the text that calculate has normalized does not change when it is
\* normalized again: cleanInput(cleanInput(x)) = cleanInput(x)
CleanInputIdempotent ==
    ret.op = "calculate" /\ ret.last = null =>
        /\ ret.text = cleanInput(ret.payload.input)
        /\ cleanInput(ret.text) = ret.text

\* C26: a scatter request whose text holds fewer than four numbers, or an
\* odd count of them, fails, and a scatter request that succeeds has as
\* many x-values as y-values
ScatterCountEvenAtLeastFour ==
    ret.op = "calculate" /\ routeOf(ret.text).domain = "graphing"
                         /\ detectGraphType(ret.text) = "scatter" =>
        /\ Len(extractNumbers(ret.text)) < 4 \/ Len(extractNumbers(ret.text)) % 2 = 1 =>
               ~ret.payload.success
        /\ ret.payload.success => Len(ret.parsed.x) = Len(ret.parsed.y)

\* the function that the specification assigns to each word of TrigWords
functionNamed ==
    [sin |-> "sin", sine |-> "sin", cos |-> "cos", cosine |-> "cos",
     tan |-> "tan", tangent |-> "tan", angle |-> "sin"]

\* C25: the trigonometry extractor gives sin for sin and sine, cos for cos
\* and cosine, tan for tan and tangent, and sin when no function is named
TrigWordsMapped ==
    ret.op = "parseTrigonometryRequest" =>
        \A w \in 1..Len(TrigWords), angle \in Angles :
            ret.input = TrigWords[w] \o " of " \o numToString(angle) =>
                ret.parsed.expression
                  = functionNamed[TrigWords[w]] \o "(" \o numToString(angle) \o ")"

\* C27: the arithmetic extractor writes each number word from zero to
\* twenty as the digits of its number
NumberWordsToDigits ==
    ret.op = "parseNaturalLanguage" =>
        \A w \in 1..Len(numberWords) :
            /\ ret.input = numberWords[w] \o " add two" =>
                   ret.parsed.expression = numToString(w - 1) \o "+2"
            /\ ret.input = "two times " \o numberWords[w] =>
                   ret.parsed.expression = "2*" \o numToString(w - 1)

\* the samples of the plot that ret describes whose value is a finite number
finiteSamples ==
    { i \in 0..points :
        \E r \in {sampleAt(ret.expression, ret.from, ret.to, i)} :
            ~r.threw /\ r.value.type = "number" /\ "finite" \notin DOMAIN r.value }

\* the x-values and y-values recorded are those of the samples kept, in
\* the order of the samples
RecordedInOrder(kept) ==
    /\ Len(ret.data.x) = Cardinality(kept)
    /\ Len(ret.data.y) = Cardinality(kept)
    /\ \A i \in kept :
           \E j \in {Cardinality({k \in kept : k <= i})} :
               /\ ret.data.x[j] = ret.from + i * ((ret.to - ret.from) \div points)
               /\ ret.data.y[j] = sampleAt(ret.expression, ret.from, ret.to, i).value.n

\* C28: a function plot samples its expression at the 101 values from +
\* i * (to - from) / 100, i = 0..100; it records, in that order, the x and
\* the y of exactly the samples whose value is finite and did not throw;
\* it fails only when its file is not written, never for the samples it
\* drops; it records 101 points when every sample is finite
FunctionPlotKeepsFiniteSamples ==
    ret.op = "generateFunctionPlot" =>
        /\ RecordedInOrder(finiteSamples)
        /\ ret.outcome.threw <=> ~ret.written
        /\ ret.written => ret.outcome.value = PlotArtifact(Len(ret.data.x))
        /\ finiteSamples = 0..points => Len(ret.data.x) = 101

\* the plot of 0/x from -100 to 100 was written with 100 points: the
\* sample at x = 0 is no finite number and was dropped
SingularSampleDropped ==
    /\ ret.op = "generateFunctionPlot"
    /\ ret.expression = "0/x" /\ ret.from = -100 /\ ret.to = 100
    /\ ret.written
    /\ ret.outcome = Return(PlotArtifact(100))
    /\ Len(ret.data.x) = 100
    /\ \A j \in 1..100 : ret.data.x[j] # 0
    /\ ret.data.x[50] = -2 /\ ret.data.x[51] = 2

\* C30: the counts of the bins of a histogram add up to the number of its
\* data values
BinCountsSumToData ==
    ret.op = "generateHistogram" /\ ret.written => sumSeq(ret.counts) = Len(ret.data)

====
